---- MODULE Spec2Model ----
(***************************************************************************)
(* A model of the schema manager (backend/modules/schema_manager.py) and   *)
(* of the query executor (backend/modules/query_executor.py) of the        *)
(* dynamic ETL pipeline.                                                   *)
(*                                                                         *)
(* Spec       concurrent generate_schema calls against the document store  *)
(*            (collections `schemas` and `schema_history`).  Every await   *)
(*            of the coroutine is one step; a store call may raise.        *)
(* SpecQuery  one execute_db_query or execute_nl_query call: translate,    *)
(*            parse, per-collection find or aggregate, result              *)
(*            serialisation, query log.                                    *)
(* SpecExtract  two extract_all_fragments calls on one text                *)
(*            (backend/modules/data_extractor.py).                         *)
(* SpecClean  _normalize_field_name or clean_records, applied to an input  *)
(*            and then to its own result, and _deduplicate_records and     *)
(*            _clean_value applied to an input                             *)
(*            (backend/modules/data_cleaner.py).                           *)
(* SpecPipeline  process_file calls, one after the other, from the file to *)
(*            the upload log (backend/modules/etl_pipeline.py); every      *)
(*            await is one step and a store call may raise.                *)
(* SpecHelpers  _get_fields_from_query, _infer_fields_schema and           *)
(*            _merge_field_schemas applied to arguments of their own, the  *)
(*            last also to three schemas in both groupings.                *)
(*                                                                         *)
(* Python values are tagged records [kind, val]; a dict whose key order    *)
(* is observable (the schema's `collections`) is a sequence of entries, a  *)
(* dict whose key order nothing reads (a record, `fields`) is a function.  *)
(* The timestamps created_at / updated_at / timestamp are not modelled:    *)
(* no step of the code reads them back.                                    *)
(***************************************************************************)
EXTENDS Integers, Sequences, FiniteSets, TLC

VARIABLES
    schemas,        \* db.schemas: the documents, in insertion order
    history,        \* db.schema_history: the documents, in insertion order
    pc,             \* per caller: where its generate_schema coroutine is suspended
    frame,          \* per caller: the coroutine's locals (source_id, fragments, existing_schema, schema)
    okCount,        \* per source: calls that returned their schema
    lateFail,       \* per source: calls that raised after their history insert
    overlapped,     \* TRUE once a call has started while another was in flight
    contributed,    \* per source and collection: the records merged into the current schema so far
    qpc,            \* execute_db_query: position of the coroutine
    qin,            \* execute_db_query: its arguments and the store's condition
    qidx,           \* _execute_mongo_query: index of the loop over the schema's collections
    allResults,     \* _execute_mongo_query: all_results
    storeOps,       \* the find / aggregate calls issued to the store, in order
    queryLog,       \* db.queries: the log entries, in insertion order
    qret,           \* what execute_db_query / execute_nl_query returned
    qnl,            \* execute_nl_query: natural_language and query_json (None in a DB call)
    translateCalls, \* calls of translate_nl_to_query so far
    xtext,          \* extract_all_fragments: the text of the calls
    xruns,          \* extract_all_fragments: per call, what the SLM did and what the call gave
    cleanOp,        \* the cleaner operation under way: "idle", "normalize", "clean", "dedup" or "value"
    cleanIn,        \* its argument
    cleanOut,       \* what it returned, and what it returned when applied to that
    ppc,            \* process_file: position of the coroutine
    pframe,         \* process_file: its locals (source_id, fragments, all_records, schema, the loop index)
    dataColls,      \* db.<type>_data: per collection the documents, in insertion order
    uploads,        \* db.uploads: the log entries, in insertion order
    pret,           \* what the last process_file call returned
    pcalls,         \* the process_file calls that returned, in order: source, document, status
    helperOp,       \* the pure helper applied: "idle", "fields", "infer", "merge" or "widen"
    helperIn,       \* its arguments
    helperOut       \* what it returned

schemaVars == <<schemas, history, pc, frame, okCount, lateFail, overlapped, contributed>>
nlVars == <<qnl, translateCalls>>
queryVars == <<qpc, qin, qidx, allResults, storeOps, queryLog, qret, qnl, translateCalls>>
extractVars == <<xtext, xruns>>
cleanVars == <<cleanOp, cleanIn, cleanOut>>
storeVars == <<schemas, history>>
callerVars == <<pc, frame, okCount, lateFail, overlapped, contributed>>
pipeVars == <<ppc, pframe, dataColls, uploads, pret, pcalls>>
helperVars == <<helperOp, helperIn, helperOut>>
vars == <<schemas, history, pc, frame, okCount, lateFail, overlapped, contributed,
          qpc, qin, qidx, allResults, storeOps, queryLog, qret, qnl, translateCalls,
          xtext, xruns, cleanOp, cleanIn, cleanOut,
          ppc, pframe, dataColls, uploads, pret, pcalls, helperOp, helperIn, helperOut>>

-----------------------------------------------------------------------------
(* Bounds of the model.                                                    *)

MaxHistory == 3     \* generate_schema calls that reach their history insert, per behaviour
MaxLines == 3       \* lines of a text given to the extractor (the scenario texts are longer)
MaxNameLen == 4     \* characters of a field name given to _normalize_field_name
MaxRecords == 2     \* records of a list given to clean_records

Procs == {"p1", "p2"}       \* the concurrent callers of generate_schema
Sources == {"s1", "s2"}

-----------------------------------------------------------------------------
(* Python values.                                                          *)

Null == [kind |-> "null", val |-> 0]
IntV(n) == [kind |-> "int", val |-> n]
StrV(n) == [kind |-> "str", val |-> n]
BoolV(n) == [kind |-> "bool", val |-> n]
FloatV(n) == [kind |-> "float", val |-> n]
OidV(n) == [kind |-> "oid", val |-> n]
DictV(d) == [kind |-> "dict", val |-> d]
ListV(l) == [kind |-> "list", val |-> l]

\* An element of a record list: a mapping, or anything else (isinstance(record, dict)).
Rec(d) == [isdict |-> TRUE, items |-> d]
NonDict == [isdict |-> FALSE, items |-> <<>>]

\* find_one found nothing.
None == [absent |-> TRUE]

Range(s) == {s[i] : i \in DOMAIN s}

-----------------------------------------------------------------------------
(* SchemaManager: the pure helpers.                                        *)

\* type(v) for v in values, as the names the code compares against.
TypesPresent(values) == {values[i].kind : i \in DOMAIN values}

\* Mutant: the integer test comes before the boolean one (a bool is an int in Python).
InferType_IntBeforeBool(values) ==
    IF values = <<>> THEN "unknown"
    ELSE IF Cardinality(TypesPresent(values)) > 1
         THEN IF TypesPresent(values) \cap {"str", "float", "int"} # {}
              THEN "string" ELSE "mixed"
         ELSE CASE values[1].kind \in {"int", "bool"} -> "integer"
                [] values[1].kind = "float" -> "float"
                [] values[1].kind = "str" -> "string"
                [] values[1].kind = "list" -> "array"
                [] values[1].kind = "dict" -> "object"
                [] OTHER -> "unknown"

InferType(values) ==
    IF values = <<>> THEN "unknown"
    ELSE IF Cardinality(TypesPresent(values)) > 1
         THEN IF TypesPresent(values) \cap {"str", "float", "int"} # {}
              THEN "string" ELSE "mixed"
         ELSE CASE values[1].kind = "bool" -> "boolean"
                [] values[1].kind = "int" -> "integer"
                [] values[1].kind = "float" -> "float"
                [] values[1].kind = "str" -> "string"
                [] values[1].kind = "list" -> "array"
                [] values[1].kind = "dict" -> "object"
                [] OTHER -> "unknown"

\* field_values[key]: the values of `key` over the mapping records, in record order.
RECURSIVE FieldValues(_, _)
FieldValues(records, key) ==
    IF records = <<>> THEN <<>>
    ELSE LET r == Head(records)
             rest == FieldValues(Tail(records), key)
         IN IF r.isdict /\ key \in DOMAIN r.items THEN <<r.items[key]>> \o rest ELSE rest

IsNonNull(v) == v.kind # "null"

FieldRequired(values, total_records) == Len(values) = total_records

InferFieldsSchema(records) ==
    LET total_records == Len(records)
        keys == UNION {DOMAIN records[i].items : i \in {j \in DOMAIN records : records[j].isdict}}
    IN [k \in keys |->
          LET values == FieldValues(records, k)
              non_null_values == SelectSeq(values, IsNonNull)
          IN IF non_null_values = <<>>
             THEN [type |-> "null", required |-> FALSE, sample |-> Null]
             ELSE [type |-> InferType(non_null_values),
                   required |-> FieldRequired(values, total_records),
                   sample |-> non_null_values[1]]]

\* Mutant: two different types that are not strings keep the stored one.
MergedType_KeepsExisting(a, b) ==
    IF "string" \in {a, b} THEN "string" ELSE a

MergedType(a, b) ==
    IF "string" \in {a, b} THEN "string"
    ELSE IF a # b THEN "mixed" ELSE a

\* Mutant: the batch's flag replaces the stored one.
MergedRequired_NewOnly(existingRequired, newRequired) == newRequired

MergedRequired(existingRequired, newRequired) == existingRequired /\ newRequired

MergeFieldSchemas(existing, new) ==
    [k \in DOMAIN existing \cup DOMAIN new |->
        IF k \in DOMAIN new
        THEN IF k \in DOMAIN existing
             THEN [type |-> MergedType(existing[k].type, new[k].type),
                   required |-> MergedRequired(existing[k].required, new[k].required),
                   sample |-> new[k].sample]
             ELSE [new[k] EXCEPT !.required = FALSE]
        ELSE existing[k]]

\* Ordered dict of collections: entries [name, fields, record_count, source_type].
Names(collections) == {collections[i].name : i \in DOMAIN collections}
IndexOf(collections, name) == CHOOSE i \in DOMAIN collections : collections[i].name = name
Get(collections, name) == collections[IndexOf(collections, name)]

CollectionName(frag_type) == frag_type \o "_data"

\* records_to_infer_from: cleaned_records, else the parsed_data fallback.
HasRecordsToInferFrom(fragment) ==
    fragment.cleaned_records # <<>> \/ fragment.parsed_data.kind \in {"list", "dict"}

RecordsToInferFrom(fragment) ==
    IF fragment.cleaned_records # <<>> THEN fragment.cleaned_records
    ELSE fragment.parsed_data.items

BatchCount(existing_count, n) == existing_count + n

RECURSIVE InferInto(_, _)
InferInto(collections, fragments) ==
    IF fragments = <<>> THEN collections
    ELSE LET fragment == Head(fragments)
             name == CollectionName(fragment.type)
             records == RecordsToInferFrom(fragment)
             fields_schema == InferFieldsSchema(records)
         IN IF ~HasRecordsToInferFrom(fragment) THEN InferInto(collections, Tail(fragments))
            ELSE IF name \in Names(collections)
            THEN LET i == IndexOf(collections, name)
                 IN InferInto([collections EXCEPT
                                  ![i].fields = MergeFieldSchemas(@, fields_schema),
                                  ![i].record_count = BatchCount(@, Len(records))],
                              Tail(fragments))
            ELSE InferInto(Append(collections,
                                  [name |-> name, fields |-> fields_schema,
                                   record_count |-> Len(records),
                                   source_type |-> fragment.type]),
                           Tail(fragments))

InferCollectionsSchema(fragments) == InferInto(<<>>, fragments)

\* Mutant: the batch's count replaces the stored one.
MergedCount_Reset(existing_count, new_count) == new_count

MergedCount(existing_count, new_count) == existing_count + new_count

RECURSIVE MergeSchemas(_, _)
MergeSchemas(existing, new) ==
    IF new = <<>> THEN existing
    ELSE LET collection_info == Head(new)
         IN IF collection_info.name \in Names(existing)
            THEN LET i == IndexOf(existing, collection_info.name)
                 IN MergeSchemas([existing EXCEPT
                                     ![i].fields = MergeFieldSchemas(@, collection_info.fields),
                                     ![i].record_count = MergedCount(@, collection_info.record_count)],
                                 Tail(new))
            ELSE MergeSchemas(Append(existing, collection_info), Tail(new))

\* Mutant: the version is carried over without the increment.
NewVersion_Same(existing_schema) == existing_schema.version

NewVersion(existing_schema) == existing_schema.version + 1

DataTypes(fragments) == {fragments[i].type : i \in DOMAIN fragments}

\* The schema document generate_schema builds from what find_one returned.
BuildSchema(source_id, existing_schema, fragments) ==
    IF existing_schema # None
    THEN [source_id |-> source_id,
          version |-> NewVersion(existing_schema),
          collections |-> MergeSchemas(existing_schema.collections,
                                       InferCollectionsSchema(fragments)),
          data_types_present |-> existing_schema.data_types_present \cup DataTypes(fragments)]
    ELSE [source_id |-> source_id,
          version |-> 1,
          collections |-> InferCollectionsSchema(fragments),
          data_types_present |-> DataTypes(fragments)]

-----------------------------------------------------------------------------
(* The document store, as far as generate_schema uses it.                  *)

Matching(coll, source_id) == {i \in DOMAIN coll : coll[i].source_id = source_id}

FindOne(coll, source_id) ==
    IF Matching(coll, source_id) = {} THEN None
    ELSE coll[CHOOSE i \in Matching(coll, source_id) :
                 \A j \in Matching(coll, source_id) : i <= j]

\* Mutant: a compare-and-swap on the version, which drops a stale write.
UpdateOneUpsert_IfNewer(coll, source_id, doc) ==
    IF Matching(coll, source_id) = {} THEN Append(coll, doc)
    ELSE LET i == CHOOSE i \in Matching(coll, source_id) :
                     \A j \in Matching(coll, source_id) : i <= j
         IN IF coll[i].version < doc.version THEN [coll EXCEPT ![i] = doc] ELSE coll

\* update_one({"source_id": s}, {"$set": doc}, upsert=True); doc sets every key.
UpdateOneUpsert(coll, source_id, doc) ==
    IF Matching(coll, source_id) = {} THEN Append(coll, doc)
    ELSE LET i == CHOOSE i \in Matching(coll, source_id) :
                     \A j \in Matching(coll, source_id) : i <= j
         IN [coll EXCEPT ![i] = doc]

\* Mutant: the insert keeps one document per source_id, replacing the older one.
InsertOne_Replace(coll, doc) ==
    IF Matching(coll, doc.source_id) = {} THEN Append(coll, doc)
    ELSE [i \in DOMAIN coll |-> IF coll[i].source_id = doc.source_id THEN doc ELSE coll[i]]

InsertOne(coll, doc) == Append(coll, doc)

\* schema_copy: what insert_one receives.
SchemaCopy(schema) == schema

-----------------------------------------------------------------------------
(* The ingests the model draws.                                            *)

rX == Rec([x |-> IntV(1)])                  \* x present and non-null
rXnull == Rec([x |-> Null])                 \* x present, explicit null
rY == Rec([y |-> StrV(1)])                  \* x absent

Cleaned(t, records) ==
    [type |-> t, cleaned_records |-> records,
     parsed_data |-> [kind |-> "list", items |-> records]]
\* process_file attaches no cleaned_records when the first parsed element is no mapping,
\* or when parsed_data is empty.
Uncleaned(t, elements) ==
    [type |-> t, cleaned_records |-> <<>>,
     parsed_data |-> [kind |-> "list", items |-> elements]]

Batches ==
    { <<Cleaned("json", <<rX>>)>>,
      <<Cleaned("json", <<rX, rY>>)>>,
      <<Cleaned("json", <<rX>>), Cleaned("json", <<rY>>)>>,
      <<Cleaned("csv", <<rX, rXnull>>), Uncleaned("json", <<NonDict, NonDict>>)>>,
      <<Uncleaned("html", <<>>)>> }

\* The calls the model draws: every batch for source s1, one batch for source s2.
Ingests ==
    {[source_id |-> "s1", fragments |-> b] : b \in Batches}
    \cup {[source_id |-> "s2", fragments |-> <<Cleaned("json", <<rX>>)>>]}

AllCollections == {CollectionName(t) : t \in {"json", "csv", "html"}}

-----------------------------------------------------------------------------
(* generate_schema, one step per await.                                    *)

InFlight(p) == pc[p] # "idle"

\* The model starts a call only while the history can still take its entry.
MayStart == Len(history) + Cardinality({q \in Procs : pc[q] = "insert"}) < MaxHistory

NoFrame == [source_id |-> "", fragments |-> <<>>, existing_schema |-> None, schema |-> None]

Current(s) == FindOne(schemas, s)

\* The records of the call's fragments that go to collection `name`.
RECURSIVE BatchRecords(_, _)
BatchRecords(fragments, name) ==
    IF fragments = <<>> THEN <<>>
    ELSE LET f == Head(fragments)
         IN (IF HasRecordsToInferFrom(f) /\ CollectionName(f.type) = name
             THEN RecordsToInferFrom(f) ELSE <<>>) \o BatchRecords(Tail(fragments), name)

\* The call starts, find_one returns, and the code runs up to the await of insert_one.
GenFind(p) ==
    /\ pc[p] = "idle"
    /\ MayStart
    /\ \E call \in Ingests :
          LET existing_schema == FindOne(schemas, call.source_id)
          IN frame' = [frame EXCEPT ![p] =
                          [source_id |-> call.source_id, fragments |-> call.fragments,
                           existing_schema |-> existing_schema,
                           schema |-> BuildSchema(call.source_id, existing_schema,
                                                  call.fragments)]]
    /\ pc' = [pc EXCEPT ![p] = "insert"]
    /\ overlapped' = (overlapped \/ \E q \in Procs \ {p} : InFlight(q))
    /\ UNCHANGED <<schemas, history, okCount, lateFail, contributed>>

\* find_one raises: the call raises before it wrote anything.
GenFindFail(p) ==
    /\ pc[p] = "idle"
    /\ MayStart
    /\ overlapped' = (overlapped \/ \E q \in Procs \ {p} : InFlight(q))
    /\ UNCHANGED <<schemas, history, pc, frame, okCount, lateFail, contributed>>

\* Mutant: the call goes on to the current-schema write without its history insert.
GenInsertHistory_Skip(p) ==
    /\ pc[p] = "insert"
    /\ pc' = [pc EXCEPT ![p] = "update"]
    /\ UNCHANGED <<schemas, history, frame, okCount, lateFail, overlapped, contributed>>

GenInsertHistory(p) ==
    /\ pc[p] = "insert"
    /\ history' = InsertOne(history, SchemaCopy(frame[p].schema))
    /\ pc' = [pc EXCEPT ![p] = "update"]
    /\ UNCHANGED <<schemas, frame, okCount, lateFail, overlapped, contributed>>

GenInsertFail(p) ==
    /\ pc[p] = "insert"
    /\ pc' = [pc EXCEPT ![p] = "idle"]
    /\ frame' = [frame EXCEPT ![p] = NoFrame]
    /\ UNCHANGED <<schemas, history, okCount, lateFail, overlapped, contributed>>

GenUpdate(p) ==
    /\ pc[p] = "update"
    /\ schemas' = UpdateOneUpsert(schemas, frame[p].source_id, frame[p].schema)
    /\ pc' = [pc EXCEPT ![p] = "idle"]
    /\ frame' = [frame EXCEPT ![p] = NoFrame]
    /\ okCount' = [okCount EXCEPT ![frame[p].source_id] = @ + 1]
    /\ contributed' = [contributed EXCEPT ![frame[p].source_id] =
                          [c \in AllCollections |->
                              @[c] \cup Range(BatchRecords(frame[p].fragments, c))]]
    /\ UNCHANGED <<history, lateFail, overlapped>>

GenUpdateFail(p) ==
    /\ pc[p] = "update"
    /\ pc' = [pc EXCEPT ![p] = "idle"]
    /\ frame' = [frame EXCEPT ![p] = NoFrame]
    /\ lateFail' = [lateFail EXCEPT ![frame[p].source_id] = @ + 1]
    /\ UNCHANGED <<schemas, history, okCount, overlapped, contributed>>

-----------------------------------------------------------------------------
(* QueryExecutor: the pure helpers.                                        *)

\* A filter or projection mapping: a sequence of entries [key, val], val being a
\* scalar, a mapping (an operator mapping such as {"$gt": 10}) or a list.
Scalar == [t |-> "scalar", items |-> <<>>]
OpMap == [t |-> "dict", items |-> <<>>]
ListOf(elements) == [t |-> "list", items |-> elements]
Entry(key, val) == [key |-> key, val |-> val]
DictItem(d) == [isdict |-> TRUE, d |-> d]
OtherItem == [isdict |-> FALSE, d |-> <<>>]

\* key.startswith('$'), over the keys the model's queries use.
StartsWithDollar(key) == key \in {"$or", "$and", "$gt", "$not", "$exists"}

RECURSIVE GetFieldsFromQuery(_)
GetFieldsFromQuery(query_part) ==
    UNION { LET e == query_part[i]
            IN IF StartsWithDollar(e.key)
               THEN IF e.val.t = "list"
                    THEN UNION { IF e.val.items[j].isdict
                                 THEN GetFieldsFromQuery(e.val.items[j].d) ELSE {}
                                 : j \in DOMAIN e.val.items }
                    ELSE {}
               ELSE IF e.val.t = "dict" THEN {e.key}
               ELSE IF e.key # "_id" THEN {e.key} ELSE {}
          : i \in DOMAIN query_part }

\* query_obj.get(key, default)
QGet(query_obj, key, default) == IF key \in query_obj.keys THEN query_obj[key] ELSE default

DefaultProjection == <<Entry("_id", Scalar)>>

\* Mutant: an operation the executor does not know is run as a find.
Operation_UnknownAsFind(query_obj) ==
    IF QGet(query_obj, "operation", "find") = "aggregate" THEN "aggregate" ELSE "find"

Operation(query_obj) == QGet(query_obj, "operation", "find")
FilterQuery(query_obj) == QGet(query_obj, "filter", <<>>)
Projection(query_obj) == QGet(query_obj, "projection", DefaultProjection)

\* Check 1 of the find loop: the collection is skipped for its filter fields.
\* Mutant: a collection with any one of the filter fields passes.
MissingFilterFields_Any(fields_in_filter, fields_in_this_collection) ==
    fields_in_filter # {} /\ fields_in_filter \cap fields_in_this_collection = {}

MissingFilterFields(fields_in_filter, fields_in_this_collection) ==
    fields_in_filter # {} /\ ~(fields_in_filter \subseteq fields_in_this_collection)

\* Check 2 of the find loop: the collection is skipped for its projection fields.
MissingProjectionFields(fields_in_projection, fields_in_this_collection) ==
    fields_in_projection # {} /\ fields_in_projection \cap fields_in_this_collection = {}

\* str(ObjectId)
OidStr(oid) == StrV(1000 + oid.val)

RECURSIVE SerializeRecord(_)
SerializeRecord(record) ==
    [key \in DOMAIN record |->
        LET value == record[key]
        IN IF value.kind = "oid" THEN OidStr(value)
           ELSE IF value.kind = "dict" THEN DictV(SerializeRecord(value.val))
           ELSE IF value.kind = "list"
                THEN ListV([j \in DOMAIN value.val |->
                              IF value.val[j].kind = "dict"
                              THEN DictV(SerializeRecord(value.val[j].val))
                              ELSE value.val[j]])
           ELSE value]

SerializeMongoResults(results) == [i \in DOMAIN results |-> SerializeRecord(results[i])]

-----------------------------------------------------------------------------
(* The store's data collections, as far as the query executor uses them.   *)
(* What a find or an aggregate matches is the store's business: the model  *)
(* fixes one answer per collection, with the collection's own identifiers, *)
(* so that the origin and the order of the results are visible.  The query *)
(* log insert is taken to succeed; the store may raise on the data         *)
(* collections named in qin.failing.                                       *)

CollNo(name) == CASE name = "json_data" -> 1 [] name = "csv_data" -> 2 [] OTHER -> 3

\* The second document holds identifiers at each place a value can be: a key's value,
\* inside a nested mapping, directly in a list, in a mapping in a list, in a list in a list.
\* A data collection is named after the fragment type alone (_load_data, line 125), so it
\* holds the records of every source: the first document was loaded for s1, the second
\* for s2, each with the _source_id that _load_data gave it.
StoredDocs(name) ==
    << [_id |-> OidV(2 * CollNo(name) - 1), tag |-> IntV(CollNo(name)),
        _source_id |-> StrV("s1")],
       [_id |-> OidV(2 * CollNo(name)), tag |-> DictV([ref |-> OidV(CollNo(name))]),
        _source_id |-> StrV("s2"),
        refs |-> ListV(<<OidV(CollNo(name)), DictV([ref |-> OidV(CollNo(name))]),
                         ListV(<<OidV(CollNo(name))>>)>>)] >>

WithoutId(doc) == [key \in DOMAIN doc \ {"_id"} |-> doc[key]]

ExcludesId(projection) == \E i \in DOMAIN projection : projection[i].key = "_id"

\* collection.find(filter_query, projection).to_list(1000)
StoreFind(name, filter_query, projection) ==
    IF ExcludesId(projection)
    THEN [i \in DOMAIN StoredDocs(name) |-> WithoutId(StoredDocs(name)[i])]
    ELSE StoredDocs(name)

\* collection.aggregate(pipeline).to_list(1000)
StoreAggregate(name, pipeline) == StoredDocs(name)

-----------------------------------------------------------------------------
(* The queries the model draws.                                            *)

FieldInfo == [type |-> "integer", required |-> TRUE, sample |-> IntV(1)]

QColl(frag_type, fieldNames) ==
    [name |-> CollectionName(frag_type), fields |-> [f \in fieldNames |-> FieldInfo],
     record_count |-> 2, source_type |-> frag_type]

SchemaDoc(collections) ==
    [source_id |-> "s1", version |-> 1, collections |-> collections,
     data_types_present |-> {collections[i].source_type : i \in DOMAIN collections}]

PriceNameSchema == SchemaDoc(<<QColl("json", {"price"}), QColl("csv", {"name"})>>)

QuerySchemas ==
    { SchemaDoc(<<>>),
      PriceNameSchema,
      SchemaDoc(<<QColl("csv", {"name"}), QColl("json", {"price", "name"}), QColl("html", {})>>),
      SchemaDoc(<<QColl("json", {"price"}), QColl("csv", {"price"}), QColl("html", {"price", "name"})>>) }

PriceGt100 == <<Entry("price", OpMap)>>

Filters ==
    { <<>>,
      PriceGt100,
      <<Entry("name", Scalar)>>,
      <<Entry("price", Scalar), Entry("name", Scalar)>>,
      <<Entry("$or", ListOf(<<DictItem(<<Entry("price", OpMap)>>),
                              DictItem(<<Entry("name", Scalar)>>), OtherItem>>))>>,
      <<Entry("zip", Scalar)>> }

Projections ==
    { DefaultProjection,
      <<>>,
      <<Entry("_id", Scalar), Entry("price", Scalar)>>,
      <<Entry("name", Scalar), Entry("zip", Scalar)>> }

FindQuery(keys, filter, projection) ==
    [keys |-> keys, operation |-> "find", filter |-> filter, projection |-> projection,
     pipeline |-> <<>>]

PriceGt100Query == FindQuery({"operation", "filter"}, PriceGt100, <<>>)

\* json.loads(query_text), for the texts that parse.
ParsedQueries ==
    {FindQuery({"operation", "filter", "projection"}, f, pr) : f \in Filters, pr \in Projections}
    \cup {FindQuery({"operation", "filter"}, f, <<>>) : f \in Filters}
    \cup {FindQuery({"filter"}, PriceGt100, <<>>), FindQuery({"operation"}, <<>>, <<>>)}
    \cup {[keys |-> {"operation", "pipeline"}, operation |-> "aggregate", filter |-> <<>>,
           projection |-> <<>>, pipeline |-> <<>>],
          [keys |-> {"operation", "filter"}, operation |-> "count", filter |-> PriceGt100,
           projection |-> <<>>, pipeline |-> <<>>]}

\* A query text json.loads rejects.
Malformed == [keys |-> {}, operation |-> "malformed", filter |-> <<>>, projection |-> <<>>,
              pipeline |-> <<>>]

QueryTexts == ParsedQueries \cup {Malformed}

\* Another text json.loads rejects: prose around a query, as a language model may answer.
MalformedProse == [keys |-> {}, operation |-> "prose", filter |-> <<>>, projection |-> <<>>,
                   pipeline |-> <<>>]

\* json.loads(query_json): the parsed query, or Malformed for a text it rejects.
Loads(query_json) == IF query_json \in ParsedQueries THEN query_json ELSE Malformed

\* What translate_nl_to_query answers: a text, or None when it raises.
TranslatorAnswers == QueryTexts \cup {MalformedProse, None}

-----------------------------------------------------------------------------
(* execute_db_query, one step per await.                                   *)

QCollections == qin.schema.collections
QOperation == Operation(qin.query)
FieldsInFilter == GetFieldsFromQuery(FilterQuery(qin.query))
FieldsInProjection == GetFieldsFromQuery(Projection(qin.query))

LogEntry(query_text, translated, result_count, error) ==
    [source_id |-> "s1", query_type |-> "DB", original_query |-> query_text,
     translated_query |-> translated, result_count |-> result_count, error |-> error]

\* str(e) of the exception the except branch caught.
ErrorMessage ==
    [str |-> IF qin.query = Malformed THEN "JSONDecodeError" ELSE "store failure"]

\* The call starts: json.loads, then _execute_mongo_query up to its first await.
QCall ==
    /\ qpc = "idle"
    /\ \E schema \in QuerySchemas, query \in QueryTexts, failing \in SUBSET AllCollections :
          /\ qin' = [schema |-> schema, query |-> query, failing |-> failing]
          /\ qpc' = IF query = Malformed THEN "log_error"
                    ELSE IF schema.collections = <<>> THEN "log"
                    ELSE "loop"
    /\ qidx' = 1
    /\ allResults' = <<>>
    /\ UNCHANGED <<storeOps, queryLog, qret>>
    /\ UNCHANGED nlVars

\* Mutant: a failing find is skipped, as a failing aggregate is.
QFindStep_SkipFailure ==
    /\ qpc = "loop" /\ QOperation = "find" /\ qidx <= Len(QCollections)
    /\ LET coll_data == QCollections[qidx]
           fields_in_this_collection == DOMAIN coll_data.fields
       IN IF \/ MissingFilterFields(FieldsInFilter, fields_in_this_collection)
             \/ MissingProjectionFields(FieldsInProjection, fields_in_this_collection)
          THEN /\ qidx' = qidx + 1
               /\ UNCHANGED <<qpc, allResults, storeOps>>
          ELSE /\ storeOps' = Append(storeOps, [op |-> "find", collection |-> coll_data.name])
               /\ qidx' = qidx + 1
               /\ allResults' = IF coll_data.name \in qin.failing THEN allResults
                                ELSE allResults \o StoreFind(coll_data.name,
                                                             FilterQuery(qin.query),
                                                             Projection(qin.query))
               /\ UNCHANGED qpc
    /\ UNCHANGED <<qin, queryLog, qret>>
    /\ UNCHANGED nlVars

\* One iteration of the find loop: skip the collection, or await its find.
QFindStep ==
    /\ qpc = "loop" /\ QOperation = "find" /\ qidx <= Len(QCollections)
    /\ LET coll_data == QCollections[qidx]
           fields_in_this_collection == DOMAIN coll_data.fields
       IN IF \/ MissingFilterFields(FieldsInFilter, fields_in_this_collection)
             \/ MissingProjectionFields(FieldsInProjection, fields_in_this_collection)
          THEN /\ qidx' = qidx + 1
               /\ UNCHANGED <<qpc, allResults, storeOps>>
          ELSE /\ storeOps' = Append(storeOps, [op |-> "find", collection |-> coll_data.name])
               /\ qidx' = qidx + 1
               /\ IF coll_data.name \in qin.failing
                  THEN qpc' = "log_error" /\ UNCHANGED allResults
                  ELSE /\ allResults' = allResults \o StoreFind(coll_data.name,
                                                              FilterQuery(qin.query),
                                                              Projection(qin.query))
                       /\ UNCHANGED qpc
    /\ UNCHANGED <<qin, queryLog, qret>>
    /\ UNCHANGED nlVars

\* Mutant: a failing aggregate ends the operation, as a failing find does.
QAggregateStep_Abort ==
    /\ qpc = "loop" /\ QOperation = "aggregate" /\ qidx <= Len(QCollections)
    /\ LET name == QCollections[qidx].name
       IN /\ storeOps' = Append(storeOps, [op |-> "aggregate", collection |-> name])
          /\ qidx' = qidx + 1
          /\ IF name \in qin.failing
             THEN qpc' = "log_error" /\ UNCHANGED allResults
             ELSE allResults' = allResults \o StoreAggregate(name, qin.query.pipeline)
                  /\ UNCHANGED qpc
    /\ UNCHANGED <<qin, queryLog, qret>>
    /\ UNCHANGED nlVars

\* One iteration of the aggregate loop: await the aggregate, skip the collection if it raises.
QAggregateStep ==
    /\ qpc = "loop" /\ QOperation = "aggregate" /\ qidx <= Len(QCollections)
    /\ LET name == QCollections[qidx].name
       IN /\ storeOps' = Append(storeOps, [op |-> "aggregate", collection |-> name])
          /\ qidx' = qidx + 1
          /\ allResults' = IF name \in qin.failing THEN allResults
                           ELSE allResults \o StoreAggregate(name, qin.query.pipeline)
    /\ UNCHANGED <<qpc, qin, queryLog, qret>>
    /\ UNCHANGED nlVars

\* The loop is over, or the operation is neither find nor aggregate: serialise.
QReturnResults ==
    /\ qpc = "loop"
    /\ QOperation \in {"find", "aggregate"} => qidx > Len(QCollections)
    /\ allResults' = SerializeMongoResults(allResults)
    /\ qpc' = "log"
    /\ UNCHANGED <<qin, qidx, storeOps, queryLog, qret>>
    /\ UNCHANGED nlVars

\* _log_query, then the result is returned.
QLogAndReturn ==
    /\ qpc = "log" /\ qnl = None
    /\ queryLog' = Append(queryLog, LogEntry(qin.query, qin.query, Len(allResults), None))
    /\ qret' = [source_id |-> "s1", input_query_type |-> "DB", db_query |-> qin.query,
                execution_result |-> allResults, error |-> None]
    /\ qpc' = "done"
    /\ UNCHANGED <<qin, qidx, allResults, storeOps>>
    /\ UNCHANGED nlVars

\* The except branch: _log_query with the error, then the error result is returned.
QLogErrorAndReturn ==
    /\ qpc = "log_error" /\ qnl = None
    /\ queryLog' = Append(queryLog, LogEntry(qin.query, None, 0, ErrorMessage))
    /\ qret' = [source_id |-> "s1", input_query_type |-> "DB", db_query |-> qin.query,
                error |-> [type |-> "QueryExecutionError", message |-> ErrorMessage]]
    /\ qpc' = "done"
    /\ UNCHANGED <<qin, qidx, allResults, storeOps>>
    /\ UNCHANGED nlVars

-----------------------------------------------------------------------------
(* execute_nl_query: the translator call, then the same _execute_mongo_query *)
(* loop as execute_db_query, then its own log entry and result.             *)

NaturalLanguage == "question"

NLLogEntry(natural_language, query_json, result_count, error) ==
    [source_id |-> "s1", query_type |-> "NL", original_query |-> natural_language,
     translated_query |-> query_json, result_count |-> result_count, error |-> error]

\* type(e).__name__ and str(e) of the exception the except branch caught.
NLErrorType ==
    IF qnl.query_json = None THEN "TranslatorError"
    ELSE IF qin.query = Malformed THEN "ValueError"
    ELSE "StoreError"

NLErrorMessage ==
    [str |-> IF qnl.query_json = None THEN "translator failure"
             ELSE IF qin.query = Malformed THEN "AI failed to generate valid JSON"
             ELSE "store failure"]

\* The call starts: translate_nl_to_query, json.loads, then _execute_mongo_query up to
\* its first await.
NLCall ==
    /\ qpc = "idle"
    /\ \E schema \in QuerySchemas, answer \in TranslatorAnswers,
          failing \in SUBSET AllCollections :
          /\ qnl' = [natural_language |-> NaturalLanguage, query_json |-> answer]
          /\ qin' = [schema |-> schema, query |-> Loads(answer), failing |-> failing]
          /\ qpc' = IF Loads(answer) = Malformed THEN "log_error"
                    ELSE IF schema.collections = <<>> THEN "log"
                    ELSE "loop"
    /\ translateCalls' = translateCalls + 1
    /\ qidx' = 1
    /\ allResults' = <<>>
    /\ UNCHANGED <<storeOps, queryLog, qret>>

\* _log_query, then the result is returned.
NLLogAndReturn ==
    /\ qpc = "log" /\ qnl # None
    /\ queryLog' = Append(queryLog, NLLogEntry(qnl.natural_language, qnl.query_json,
                                               Len(allResults), None))
    /\ qret' = [source_id |-> "s1", input_query_type |-> "NL",
                natural_language_query |-> qnl.natural_language,
                db_query_translated |-> qnl.query_json,
                execution_result |-> allResults, error |-> None]
    /\ qpc' = "done"
    /\ UNCHANGED <<qin, qidx, allResults, storeOps>>
    /\ UNCHANGED nlVars

\* Mutant: the error log entry does not keep the translator's text.
NLLogErrorAndReturn_DropText ==
    /\ qpc = "log_error" /\ qnl # None
    /\ queryLog' = Append(queryLog, NLLogEntry(qnl.natural_language, None, 0, NLErrorMessage))
    /\ qret' = [source_id |-> "s1", input_query_type |-> "NL",
                natural_language_query |-> qnl.natural_language,
                db_query_translated |-> qnl.query_json,
                error |-> [type |-> NLErrorType, message |-> NLErrorMessage]]
    /\ qpc' = "done"
    /\ UNCHANGED <<qin, qidx, allResults, storeOps>>
    /\ UNCHANGED nlVars

\* The except branch: _log_query with the error and query_json as it stands (None if
\* the translator raised), then the error result is returned.
NLLogErrorAndReturn ==
    /\ qpc = "log_error" /\ qnl # None
    /\ queryLog' = Append(queryLog, NLLogEntry(qnl.natural_language, qnl.query_json, 0,
                                               NLErrorMessage))
    /\ qret' = [source_id |-> "s1", input_query_type |-> "NL",
                natural_language_query |-> qnl.natural_language,
                db_query_translated |-> qnl.query_json,
                error |-> [type |-> NLErrorType, message |-> NLErrorMessage]]
    /\ qpc' = "done"
    /\ UNCHANGED <<qin, qidx, allResults, storeOps>>
    /\ UNCHANGED nlVars

-----------------------------------------------------------------------------

(* The data extractor (backend/modules/data_extractor.py).  A text is the   *)
(* sequence of its tokens: a token is a character of the syntax, a blank,  *)
(* a line break "\n", a tag, or a word; the tokens "a" and "b" inside JSON *)
(* stand for the quoted strings, and Overlong for an integer literal with  *)
(* more digits than int() accepts.                                         *)
Whitespace == {" ", "\n", "\t"}

RECURSIVE SplitLines(_)
SplitLines(text) ==
    IF \A i \in DOMAIN text : text[i] # "\n" THEN <<text>>
    ELSE LET n == CHOOSE i \in DOMAIN text : text[i] = "\n" /\ \A j \in 1..(i-1) : text[j] # "\n"
         IN <<SubSeq(text, 1, n - 1)>> \o SplitLines(SubSeq(text, n + 1, Len(text)))

RECURSIVE JoinLines(_)
JoinLines(lines) ==
    IF lines = <<>> THEN <<>>
    ELSE IF Len(lines) = 1 THEN lines[1]
    ELSE lines[1] \o <<"\n">> \o JoinLines(Tail(lines))

RECURSIVE LStrip(_)
LStrip(s) == IF s # <<>> /\ Head(s) \in Whitespace THEN LStrip(Tail(s)) ELSE s
RECURSIVE RStrip(_)
RStrip(s) == IF s # <<>> /\ s[Len(s)] \in Whitespace THEN RStrip(SubSeq(s, 1, Len(s) - 1)) ELSE s
Strip(s) == RStrip(LStrip(s))
Contains(s, tok) == \E i \in DOMAIN s : s[i] = tok

(* json.loads *)
\* "1.5" is the JSON string "1.5", quotes included, like the other tokens here.
JsonStrings == {"a", "b", "x", "1.5"}
JsonNumbers == {"1", "2"}
NumVal(tok) == CASE tok = "1" -> 1 [] tok = "2" -> 2 [] OTHER -> 0
Overlong == "1e4301"

Parsed(val, rest) == [status |-> "ok", val |-> val, rest |-> rest]
DecodeError == [status |-> "JSONDecodeError", val |-> Null, rest |-> <<>>]
ValueError == [status |-> "ValueError", val |-> Null, rest |-> <<>>]

RECURSIVE ParseValue(_), ParseMembers(_, _), ParseElements(_, _)
ParseValue(t) ==
    IF t = <<>> THEN DecodeError
    ELSE CASE Head(t) \in JsonNumbers -> Parsed(IntV(NumVal(Head(t))), Tail(t))
           [] Head(t) = Overlong -> ValueError
           [] Head(t) \in JsonStrings -> Parsed(StrV(Head(t)), Tail(t))
           [] Head(t) = "{" ->
                 IF Len(t) >= 2 /\ t[2] = "}" THEN Parsed(DictV(<<>>), SubSeq(t, 3, Len(t)))
                 ELSE ParseMembers(Tail(t), <<>>)
           [] Head(t) = "[" ->
                 IF Len(t) >= 2 /\ t[2] = "]" THEN Parsed(ListV(<<>>), SubSeq(t, 3, Len(t)))
                 ELSE ParseElements(Tail(t), <<>>)
           [] OTHER -> DecodeError

ParseMembers(t, acc) ==
    IF Len(t) < 2 \/ t[1] \notin JsonStrings \/ t[2] # ":" THEN DecodeError
    ELSE LET v == ParseValue(SubSeq(t, 3, Len(t)))
         IN IF v.status # "ok" THEN v
            ELSE IF v.rest = <<>> THEN DecodeError
            ELSE IF Head(v.rest) = "}" THEN Parsed(DictV((t[1] :> v.val) @@ acc), Tail(v.rest))
            ELSE IF Head(v.rest) = "," THEN ParseMembers(Tail(v.rest), (t[1] :> v.val) @@ acc)
            ELSE DecodeError

ParseElements(t, acc) ==
    LET v == ParseValue(t)
    IN IF v.status # "ok" THEN v
       ELSE IF v.rest = <<>> THEN DecodeError
       ELSE IF Head(v.rest) = "]" THEN Parsed(ListV(Append(acc, v.val)), Tail(v.rest))
       ELSE IF Head(v.rest) = "," THEN ParseElements(Tail(v.rest), Append(acc, v.val))
       ELSE DecodeError

NotWhitespace(tok) == tok \notin Whitespace

JsonLoads(json_text) ==
    LET v == ParseValue(SelectSeq(json_text, NotWhitespace))
    IN IF v.status = "ok" /\ v.rest # <<>> THEN DecodeError ELSE v

RECURSIVE RemoveTrailingCommas(_)
RemoveTrailingCommas(t) ==
    IF t = <<>> THEN <<>>
    ELSE LET after == LStrip(Tail(t))
         IN IF Head(t) = "," /\ after # <<>> /\ Head(after) \in {"}", "]"}
            THEN <<Head(after)>> \o RemoveTrailingCommas(Tail(after))
            ELSE <<Head(t)>> \o RemoveTrailingCommas(Tail(t))


(* _extract_json_fragments *)
Fragment(type, start_line, end_line, content, parsed_data) ==
    [type |-> type, start_line |-> start_line, end_line |-> end_line,
     content |-> content, parsed_data |-> parsed_data]

JsonIdle ==
    [in_json |-> FALSE, json_start |-> -1, brace_count |-> 0, bracket_count |-> 0,
     current_json |-> <<>>, fragments |-> <<>>, raised |-> FALSE]

JsonOpen(st, i) ==
    IF st.in_json THEN st
    ELSE [st EXCEPT !.in_json = TRUE, !.json_start = i, !.current_json = <<>>]

\* A variant in which a '[' anywhere in the line opens a span.
JsonChar_BracketAnywhere(st, char, i, stripped) ==
    CASE char = "{" -> [JsonOpen(st, i) EXCEPT !.brace_count = @ + 1]
      [] char = "}" -> [st EXCEPT !.brace_count = @ - 1]
      [] char = "[" -> [JsonOpen(st, i) EXCEPT !.bracket_count = @ + 1]
      [] char = "]" -> [st EXCEPT !.bracket_count = @ - 1]
      [] OTHER -> st

JsonChar(st, char, i, stripped) ==
    CASE char = "{" -> [JsonOpen(st, i) EXCEPT !.brace_count = @ + 1]
      [] char = "}" -> [st EXCEPT !.brace_count = @ - 1]
      [] char = "[" -> [(IF Head(stripped) = "[" THEN JsonOpen(st, i) ELSE st)
                           EXCEPT !.bracket_count = @ + 1]
      [] char = "]" -> [st EXCEPT !.bracket_count = @ - 1]
      [] OTHER -> st

RECURSIVE JsonChars(_, _, _, _)
JsonChars(st, chars, i, stripped) ==
    IF chars = <<>> THEN st
    ELSE JsonChars(JsonChar(st, Head(chars), i, stripped), Tail(chars), i, stripped)

JsonReset(st) == [st EXCEPT !.in_json = FALSE, !.json_start = -1, !.current_json = <<>>]

JsonClose(st, i) ==
    LET json_text == JoinLines(st.current_json)
        strict == JsonLoads(json_text)
        fixed_json == RemoveTrailingCommas(json_text)
        fixed == JsonLoads(fixed_json)
    IN IF strict.status = "ok"
       THEN JsonReset([st EXCEPT !.fragments = Append(@,
                Fragment("json", st.json_start + 1, i + 1, json_text, strict.val))])
       ELSE IF strict.status # "JSONDecodeError" THEN [st EXCEPT !.raised = TRUE]
       ELSE IF fixed.status = "ok"
       THEN JsonReset([st EXCEPT !.fragments = Append(@,
                [type |-> "json", start_line |-> st.json_start + 1, end_line |-> i + 1,
                 content |-> fixed_json, parsed_data |-> fixed.val,
                 note |-> "malformed_fixed"])])
       ELSE JsonReset(st)

JsonLine(st, line, i) ==
    LET counted == JsonChars(st, Strip(line), i, Strip(line))
        appended == [counted EXCEPT !.current_json = Append(@, line)]
    IN IF ~counted.in_json THEN counted
       ELSE IF counted.brace_count = 0 /\ counted.bracket_count = 0 THEN JsonClose(appended, i)
       ELSE appended

RECURSIVE JsonScan(_, _, _)
JsonScan(st, lines, i) ==
    IF i >= Len(lines) \/ st.raised THEN st
    ELSE JsonScan(JsonLine(st, lines[i + 1], i), lines, i + 1)

ExtractJsonFragments(text) == JsonScan(JsonIdle, SplitLines(text), 0)

(* _extract_csv_fragments, _parse_csv *)
Delimiters == <<",", ";", "\t", "|">>
Oversize == "x * 131073"
RestKey == "None"

RECURSIVE Concat(_)
Concat(toks) == IF toks = <<>> THEN "" ELSE Head(toks) \o Concat(Tail(toks))

\* line.split(delimiter), then each cell as a string
RECURSIVE SplitCells(_, _)
SplitCells(line, delimiter) ==
    IF ~Contains(line, delimiter) THEN <<Concat(line)>>
    ELSE LET n == CHOOSE i \in DOMAIN line :
                     line[i] = delimiter /\ \A j \in 1..(i - 1) : line[j] # delimiter
         IN <<Concat(SubSeq(line, 1, n - 1))>>
            \o SplitCells(SubSeq(line, n + 1, Len(line)), delimiter)

\* csv.reader: the rows of the text, a line without characters giving no row.
CsvRows(csv_text, delimiter) ==
    LET lines == SelectSeq(SplitLines(csv_text), LAMBDA l : l # <<>>)
    IN [i \in DOMAIN lines |-> SplitCells(lines[i], delimiter)]

\* One row of csv.DictReader.
DictRow(fieldnames, row) ==
    LET keys == {fieldnames[i] : i \in DOMAIN fieldnames}
                \cup (IF Len(row) > Len(fieldnames) THEN {RestKey} ELSE {})
        last(k) == CHOOSE i \in DOMAIN fieldnames :
                      fieldnames[i] = k /\ \A j \in DOMAIN fieldnames : fieldnames[j] = k => j <= i
    IN [k \in keys |->
          IF k = RestKey /\ Len(row) > Len(fieldnames)
             /\ (\A i \in DOMAIN fieldnames : fieldnames[i] # k)
          THEN ListV([j \in 1..(Len(row) - Len(fieldnames)) |-> StrV(row[Len(fieldnames) + j])])
          ELSE IF last(k) <= Len(row) THEN StrV(row[last(k)]) ELSE Null]

ParseCsv(csv_text, delimiter) ==
    IF Contains(csv_text, Oversize) THEN <<>>
    ELSE LET rows == CsvRows(csv_text, delimiter)
         IN [i \in 1..(Len(rows) - 1) |-> DictV(DictRow(rows[1], rows[i + 1]))]

\* The tags of the model's texts: name and attributes of an opening tag.
OpenTags == {"<p>", "<r>", "<r v=1>", "<a>", "<a k=v>", "<b k=w>", "<table>", "<tr>", "<td>"}
CloseTags == {"</p>", "</r>", "</a>", "</b>", "</table>", "</tr>", "</td>"}
IsTag(tok) == tok \in OpenTags \cup CloseTags

TagName(tok) ==
    CASE tok = "<p>" -> "p"
      [] tok \in {"<r>", "<r v=1>"} -> "r"
      [] tok \in {"<a>", "<a k=v>"} -> "a"
      [] tok = "<b k=w>" -> "b"
      [] tok = "<table>" -> "table"
      [] tok = "<tr>" -> "tr"
      [] OTHER -> "td"

TagAttrib(tok) ==
    CASE tok = "<r v=1>" -> [v |-> StrV("1")]
      [] tok = "<a k=v>" -> [k |-> StrV("v")]
      [] tok = "<b k=w>" -> [k |-> StrV("w")]
      [] OTHER -> <<>>

LooksLikeJsonOrXml(stripped) ==
    \/ stripped # <<>> /\ Head(stripped) \in {"{", "[", "}", "]"}
    \/ Contains(stripped, ":") /\ Contains(stripped, "{")
    \/ stripped # <<>> /\ IsTag(Head(stripped)) /\ IsTag(stripped[Len(stripped)])

CsvIdle == [in_csv |-> FALSE, csv_start |-> -1, current_csv |-> <<>>, delimiter |-> ",",
            fragments |-> <<>>]

CsvReset(st) == [st EXCEPT !.in_csv = FALSE, !.csv_start = -1, !.current_csv = <<>>]

\* A variant that keeps a block of a header and one row.
CsvEmit_KeepOneRow(st, end_line) ==
    LET csv_text == JoinLines(st.current_csv)
        parsed == ParseCsv(csv_text, st.delimiter)
    IN IF Len(parsed) >= 1
       THEN [st EXCEPT !.fragments = Append(@,
                [type |-> "csv", start_line |-> st.csv_start + 1, end_line |-> end_line,
                 content |-> csv_text, parsed_data |-> ListV(parsed),
                 delimiter |-> st.delimiter])]
       ELSE st

\* The block is over: keep it if it parses to at least 2 rows.
CsvEmit(st, end_line) ==
    LET csv_text == JoinLines(st.current_csv)
        parsed == ParseCsv(csv_text, st.delimiter)
    IN IF Len(parsed) >= 2
       THEN [st EXCEPT !.fragments = Append(@,
                [type |-> "csv", start_line |-> st.csv_start + 1, end_line |-> end_line,
                 content |-> csv_text, parsed_data |-> ListV(parsed),
                 delimiter |-> st.delimiter])]
       ELSE st

StartsCsv(stripped, delim) ==
    Contains(stripped, delim) /\ (~Contains(stripped, ":") \/ delim # ",")

CsvLine(st, line, i) ==
    LET stripped == Strip(line)
    IN IF LooksLikeJsonOrXml(stripped)
       THEN IF st.in_csv /\ st.current_csv # <<>> THEN CsvReset(CsvEmit(st, i)) ELSE st
       ELSE IF ~st.in_csv /\ stripped # <<>>
       THEN IF \E d \in DOMAIN Delimiters : StartsCsv(stripped, Delimiters[d])
            THEN LET d == CHOOSE d \in DOMAIN Delimiters :
                             /\ StartsCsv(stripped, Delimiters[d])
                             /\ \A e \in 1..(d - 1) : ~StartsCsv(stripped, Delimiters[e])
                 IN [st EXCEPT !.in_csv = TRUE, !.csv_start = i, !.current_csv = <<line>>,
                               !.delimiter = Delimiters[d]]
            ELSE st
       ELSE IF st.in_csv
       THEN IF Contains(stripped, st.delimiter) \/ stripped = <<>>
            THEN [st EXCEPT !.current_csv = Append(@, line)]
            ELSE CsvReset(CsvEmit(st, i))
       ELSE st

RECURSIVE CsvScan(_, _, _)
CsvScan(st, lines, i) ==
    IF i >= Len(lines)
    THEN IF st.in_csv /\ st.current_csv # <<>> THEN CsvEmit(st, Len(lines)) ELSE st
    ELSE CsvScan(CsvLine(st, lines[i + 1], i), lines, i + 1)

ExtractCsvFragments(text) == CsvScan(CsvIdle, SplitLines(text), 0)


(* _extract_html_fragments, _parse_html_tables *)
HasTag(line) == \E i \in DOMAIN line : IsTag(line[i])

IsText(tok) == ~IsTag(tok) /\ tok \notin Whitespace

\* soup.get_text(strip=True)
SoupText(html_text) == Concat(SelectSeq(html_text, IsText))

\* The token spans from each `open` to the next `close`, both excluded.
RECURSIVE Spans(_, _, _)
Spans(toks, open, close) ==
    IF ~Contains(toks, open) THEN <<>>
    ELSE LET o == CHOOSE i \in DOMAIN toks : toks[i] = open /\ \A j \in 1..(i - 1) : toks[j] # open
             after == SubSeq(toks, o + 1, Len(toks))
         IN IF ~Contains(after, close) THEN <<after>>
            ELSE LET c == CHOOSE i \in DOMAIN after :
                             after[i] = close /\ \A j \in 1..(i - 1) : after[j] # close
                 IN <<SubSeq(after, 1, c - 1)>> \o Spans(SubSeq(after, c + 1, Len(after)), open, close)

\* Tables without thead: each row is the list of its cells' texts.
TableRows(table) ==
    LET trs == Spans(table, "<tr>", "</tr>")
        cells(tr) == LET tds == Spans(tr, "<td>", "</td>")
                     IN [i \in DOMAIN tds |-> StrV(SoupText(tds[i]))]
        rows == [i \in DOMAIN trs |-> ListV(cells(trs[i]))]
    IN SelectSeq(rows, LAMBDA row : row.val # <<>>)

ParseHtmlTables(html_text) ==
    LET tables == Spans(html_text, "<table>", "</table>")
        data == [i \in DOMAIN tables |-> TableRows(tables[i])]
        kept == SelectSeq(data, LAMBDA rows : rows # <<>>)
    IN [i \in DOMAIN kept |-> DictV([table |-> ListV(kept[i])])]

HtmlIdle == [in_html |-> FALSE, html_start |-> -1, current_html |-> <<>>, fragments |-> <<>>]

HtmlReset(st) == [st EXCEPT !.in_html = FALSE, !.html_start = -1, !.current_html = <<>>]

HtmlFragment(st, end_line) ==
    Fragment("html", st.html_start + 1, end_line, JoinLines(st.current_html),
             ListV(ParseHtmlTables(JoinLines(st.current_html))))

HtmlLine(st, line, i) ==
    IF HasTag(line)
    THEN [(IF st.in_html THEN st
           ELSE [st EXCEPT !.in_html = TRUE, !.html_start = i, !.current_html = <<>>])
             EXCEPT !.current_html = Append(@, line)]
    ELSE IF st.in_html /\ Strip(line) = <<>> THEN st
    ELSE IF st.in_html
    THEN LET html_text == JoinLines(st.current_html)
         IN IF ParseHtmlTables(html_text) # <<>> \/ SoupText(html_text) # ""
            THEN HtmlReset([st EXCEPT !.fragments = Append(@, HtmlFragment(st, i))])
            ELSE HtmlReset(st)
    ELSE st

RECURSIVE HtmlScan(_, _, _)
HtmlScan(st, lines, i) ==
    IF i >= Len(lines)
    THEN IF st.in_html /\ st.current_html # <<>>
         THEN [st EXCEPT !.fragments = Append(@, HtmlFragment(st, Len(lines)))]
         ELSE st
    ELSE HtmlScan(HtmlLine(st, lines[i + 1], i), lines, i + 1)

ExtractHtmlFragments(text) == HtmlScan(HtmlIdle, SplitLines(text), 0)

(* _extract_xml_fragments, _xml_to_dict, _flatten_dict *)
\* The matches of xml_pattern from position pos on: leading whitespace, an opening
\* tag, and everything up to the first closing tag after it.
RECURSIVE XmlMatches(_, _)
XmlMatches(text, pos) ==
    LET opens == {i \in pos..Len(text) :
                     text[i] \in OpenTags /\ \E j \in (i + 1)..Len(text) : text[j] \in CloseTags}
    IN IF opens = {} THEN <<>>
       ELSE LET o == CHOOSE i \in opens : \A j \in opens : i <= j
                c == CHOOSE j \in (o + 1)..Len(text) :
                        text[j] \in CloseTags /\ \A k \in (o + 1)..(j - 1) : text[k] \notin CloseTags
                s == CHOOSE p \in pos..o :
                        /\ \A k \in p..(o - 1) : text[k] \in Whitespace
                        /\ \A q \in pos..(p - 1) : \E k \in q..(o - 1) : text[k] \notin Whitespace
            IN <<[start |-> s, end |-> c]>> \o XmlMatches(text, c + 1)

Newlines(toks) == Len(SelectSeq(toks, LAMBDA tok : tok = "\n"))

\* etree.fromstring(xml_text): the elements of the span, each the only child of the
\* one before it (a span holds one closing tag, at its end).
XmlElements(xml_text) ==
    LET idx == SelectSeq([i \in DOMAIN xml_text |-> i], LAMBDA i : xml_text[i] \in OpenTags)
    IN [n \in DOMAIN idx |->
          LET upto == IF n < Len(idx) THEN idx[n + 1] - 1 ELSE Len(xml_text) - 1
          IN [tag |-> TagName(xml_text[idx[n]]), attrib |-> TagAttrib(xml_text[idx[n]]),
              text |-> Concat(Strip(SubSeq(xml_text, idx[n] + 1, upto)))]]

Converted(val) == [raised |-> FALSE, val |-> val]
ConversionError == [raised |-> TRUE, val |-> Null]

RECURSIVE XmlToDict(_, _)
XmlToDict(elements, n) ==
    LET element == elements[n]
        has_child == n < Len(elements)
        with_text == IF element.text # "" THEN ("text_content" :> StrV(element.text)) @@ element.attrib
                     ELSE element.attrib
        child == XmlToDict(elements, n + 1)
        child_tag == elements[n + 1].tag
        d == IF ~has_child THEN with_text
             ELSE IF child_tag \in DOMAIN with_text
             THEN (child_tag :> ListV(<<with_text[child_tag], child.val>>)) @@ with_text
             ELSE (child_tag :> child.val) @@ with_text
    IN IF has_child /\ child.raised THEN ConversionError
       ELSE IF element.attrib # <<>> \/ has_child
       THEN IF "text_content" \notin DOMAIN d THEN ConversionError ELSE Converted(DictV(d))
       ELSE IF element.text # "" THEN Converted(StrV(element.text)) ELSE Converted(DictV(d))

RECURSIVE FlattenDict(_, _)
FlattenDict(d, parent_key) ==
    LET new_key(k) == IF parent_key # "" THEN parent_key \o "_" \o k ELSE k
        flat(k) == IF d[k].kind = "dict" /\ \A c \in DOMAIN d[k].val : d[k].val[c].kind # "list"
                   THEN FlattenDict(d[k].val, new_key(k))
                   ELSE (new_key(k) :> d[k])
        keys == UNION {DOMAIN flat(k) : k \in DOMAIN d}
    IN [key \in keys |-> LET k == CHOOSE k \in DOMAIN d : key \in DOMAIN flat(k) IN flat(k)[key]]

\* The records of one matched span, or a conversion error.
XmlRecords(xml_text) ==
    LET elements == XmlElements(xml_text)
        root == elements[1]
        record_dict == XmlToDict(elements, 2)
        with_root == [key \in {"root_attr_" \o a : a \in DOMAIN root.attrib} |->
                         root.attrib[CHOOSE a \in DOMAIN root.attrib : key = "root_attr_" \o a]]
                     @@ record_dict.val.val
    IN IF Len(elements) < 2 THEN Converted(<<>>)
       ELSE IF record_dict.raised \/ record_dict.val.kind # "dict" THEN ConversionError
       ELSE Converted(<<DictV(FlattenDict(with_root, ""))>>)

XmlFragments(text, matches) ==
    LET candidate(m) ==
           LET xml_text == Strip(SubSeq(text, m.start, m.end))
               records == XmlRecords(xml_text)
           IN IF records.raised \/ records.val = <<>> THEN <<>>
              ELSE <<Fragment("xml", Newlines(SubSeq(text, 1, m.start - 1)) + 1,
                              Newlines(SubSeq(text, 1, m.end)) + 1, xml_text,
                              ListV(records.val))>>
        RECURSIVE collect(_)
        collect(ms) == IF ms = <<>> THEN <<>> ELSE candidate(Head(ms)) \o collect(Tail(ms))
    IN collect(matches)

ExtractXmlFragments(text) == XmlFragments(text, XmlMatches(text, 1))

(* _deduplicate_fragments *)
\* list.sort(key=start_line): stable.
RECURSIVE SortByStartLine(_)
SortByStartLine(fragments) ==
    IF fragments = <<>> THEN <<>>
    ELSE LET low == CHOOSE i \in DOMAIN fragments :
                       /\ \A j \in DOMAIN fragments : fragments[i].start_line <= fragments[j].start_line
                       /\ \A j \in 1..(i - 1) : fragments[j].start_line # fragments[i].start_line
         IN <<fragments[low]>>
            \o SortByStartLine(SubSeq(fragments, 1, low - 1) \o SubSeq(fragments, low + 1, Len(fragments)))

FragmentKey(frag) == <<frag.type, frag.start_line, frag.end_line>>

\* A variant that drops the duplicates without sorting.
DeduplicateFragments_NoSort(fragments) ==
    LET first(i) == \A j \in 1..(i - 1) : FragmentKey(fragments[j]) # FragmentKey(fragments[i])
        keep == SelectSeq([i \in DOMAIN fragments |-> i], first)
    IN [n \in DOMAIN keep |-> fragments[keep[n]]]

\* A variant that sorts and keeps every fragment.
DeduplicateFragments_SortOnly(fragments) == SortByStartLine(fragments)

DeduplicateFragments(fragments) ==
    LET sorted == SortByStartLine(fragments)
        first(i) == \A j \in 1..(i - 1) : FragmentKey(sorted[j]) # FragmentKey(sorted[i])
        keep == SelectSeq([i \in DOMAIN sorted |-> i], first)
    IN [n \in DOMAIN keep |-> sorted[keep[n]]]

(* extract_all_fragments *)
\* What the SLM detection call does: the client is disabled, the call raises,
\* or it returns the fragments the model reports.
SlmFragment == [type |-> "html", start_line |-> 1, end_line |-> 1, content |-> <<"snippet">>]
SlmDisabled == [use_slm |-> FALSE, raised |-> FALSE, fragments |-> <<>>]
SlmRaised == [use_slm |-> TRUE, raised |-> TRUE, fragments |-> <<>>]
SlmReturned == [use_slm |-> TRUE, raised |-> FALSE, fragments |-> <<SlmFragment>>]
SlmOutcomes == {SlmDisabled, SlmRaised, SlmReturned}

\* A variant that puts the fragments the SLM reports into the list.
ExtractAllFragments_UsesSlm(text, slm) ==
    LET json == ExtractJsonFragments(text)
    IN IF json.raised THEN [raised |-> TRUE, fragments |-> <<>>]
       ELSE [raised |-> FALSE,
             fragments |-> DeduplicateFragments(slm.fragments
                                                \o json.fragments
                                                \o ExtractHtmlFragments(text).fragments
                                                \o ExtractCsvFragments(text).fragments
                                                \o ExtractXmlFragments(text))]

\* slm_result is logged and never read; an exception of a scanner leaves the call.
ExtractAllFragments(text, slm) ==
    LET slm_result == IF slm.use_slm /\ ~slm.raised THEN slm.fragments ELSE <<>>
        json == ExtractJsonFragments(text)
    IN IF json.raised THEN [raised |-> TRUE, fragments |-> <<>>]
       ELSE [raised |-> FALSE,
             fragments |-> DeduplicateFragments(json.fragments
                                                \o ExtractHtmlFragments(text).fragments
                                                \o ExtractCsvFragments(text).fragments
                                                \o ExtractXmlFragments(text))]

(* The texts given to extract_all_fragments: every text of up to MaxLines  *)
(* of the lines below, and the longer texts of the scenarios.              *)
ProseLine == <<"noise">>
BlankLine == <<>>
JsonLineOk == <<"{", "a", ":", " ", "1", "}">>
JsonLineTrailingComma == <<"{", "a", ":", " ", "1", ",", " ", "b", ":", " ", "2", ",", "}">>
JsonLineBroken == <<"{", "a", " ", "1", "}">>
JsonLineOverlong == <<"{", "a", ":", " ", Overlong, "}">>
ProseBracketed == <<"noise", " ", "[", "1", "]">>
ProseOpenBracket == <<"noise", " ", "[">>
EmptyParagraph == <<"<p>", "</p>">>
XmlRecordWithText == <<"<r v=1>", "<a k=v>", "1", "</a>", "</r>">>
XmlRecordWithoutText == <<"<r v=1>", "<a k=v>", "</a>", "</r>">>
XmlLeafRecord == <<"<r v=1>", "<a>", "1", "</a>", "</r>">>
CsvHeader == <<"name", ",", "age">>
CsvAlice == <<"Alice", ",", "30">>
CsvBob == <<"Bob", ",", "25">>
XmlTwoElements == <<"<r>", "<a k=v>", "1", "</a>", "</r>", " ",
                    "<r>", "<a k=v>", "2", "</a>", "</r>">>

CoreLines == {ProseLine, BlankLine, JsonLineOk, JsonLineTrailingComma, JsonLineOverlong,
              CsvHeader, CsvAlice, XmlTwoElements}

ScenarioCsv == <<CsvHeader, CsvAlice, CsvBob, BlankLine>>
ScenarioRepair == <<ProseLine, JsonLineTrailingComma, ProseLine>>

ScenarioTexts ==
    {ScenarioCsv,
     <<ProseLine, JsonLineBroken, ProseLine>>,
     <<JsonLineBroken, CsvHeader, CsvAlice, CsvBob>>,
     <<CsvHeader, CsvAlice, CsvBob, ProseLine>>,
     <<CsvHeader, CsvAlice, CsvBob, JsonLineOk>>,
     <<CsvHeader, CsvAlice, CsvBob, ProseLine, JsonLineOk>>,
     <<CsvHeader, CsvAlice, CsvBob, JsonLineOk, CsvHeader, CsvAlice>>,
     <<ProseLine, <<"{">>, <<"a", ":", " ", "1", ",">>, <<"}">>, ProseLine>>,
     <<<<"[">>, <<"1", ",">>, <<"]">>, JsonLineOverlong>>,
     <<EmptyParagraph, ProseLine, JsonLineOk>>,
     <<JsonLineOk, ProseLine, EmptyParagraph>>,
     <<XmlRecordWithText, ProseLine, JsonLineOk>>,
     <<XmlRecordWithoutText, ProseLine, JsonLineOk>>,
     <<XmlLeafRecord, ProseLine, XmlRecordWithText>>,
     <<ProseBracketed, JsonLineOk, ProseLine>>,
     <<ProseOpenBracket, JsonLineOk, <<"]">>, JsonLineOk>>,
     <<<<"}">>, JsonLineOk, <<"{">>, JsonLineOk>>,
     <<<<"<r>", "<a>", "1", "</a>", "</r>">>, ProseLine, BlankLine, JsonLineOk>>,
     <<<<"<table>", "<tr>", "<td>", "1", "</td>", "<td>", "2", "</td>", "</tr>", "</table>">>,
       ProseLine, ProseLine, JsonLineOk>>}

Texts ==
    {JoinLines(lines) : lines \in UNION {[1..n -> CoreLines] : n \in 1..MaxLines}
                                  \cup ScenarioTexts}

Run(text, slm) == [slm |-> slm, result |-> ExtractAllFragments(text, slm)]

\* extract_all_fragments(text, source_id), with what the SLM call does.
Extract ==
    /\ xruns = <<>>
    /\ \E text \in Texts, slm \in SlmOutcomes :
          /\ xtext' = text
          /\ xruns' = <<Run(text, slm)>>

\* A second call on the same text.
ExtractAgain ==
    /\ Len(xruns) = 1
    /\ \E slm \in SlmOutcomes : xruns' = Append(xruns, Run(xtext, slm))
    /\ UNCHANGED xtext

ExtractIdle == xtext = <<>> /\ xruns = <<>>

-----------------------------------------------------------------------------
(* The data cleaner (backend/modules/data_cleaner.py).  Here a string is   *)
(* the sequence of its characters, and a dict the sequence of its items in *)
(* insertion order.                                                        *)
UpperCase == {"A", "Y", "N", "T"}
LowerCase == {"a", "b", "d", "e", "f", "i", "l", "n", "o", "r", "s", "t", "u", "x", "y"}
Digits == {"0", "1", "2", "4", "5"}
SpaceChars == {" "}

LowerChar(c) ==
    CASE c = "A" -> "a" [] c = "Y" -> "y" [] c = "N" -> "n" [] c = "T" -> "t" [] OTHER -> c

Lower(s) == [i \in DOMAIN s |-> LowerChar(s[i])]

IsAlnum(c) == c \in LowerCase \cup Digits

\* re.sub(r'[^a-z0-9]+', '_', s)
RECURSIVE ReplaceSpecialRuns(_)
ReplaceSpecialRuns(s) ==
    IF s = <<>> THEN <<>>
    ELSE IF IsAlnum(Head(s)) THEN <<Head(s)>> \o ReplaceSpecialRuns(Tail(s))
    ELSE IF Len(s) >= 2 /\ ~IsAlnum(s[2]) THEN ReplaceSpecialRuns(Tail(s))
    ELSE <<"_">> \o ReplaceSpecialRuns(Tail(s))

\* s.strip(chars)
RECURSIVE LStripChars(_, _)
LStripChars(s, chars) ==
    IF s # <<>> /\ Head(s) \in chars THEN LStripChars(Tail(s), chars) ELSE s
RECURSIVE RStripChars(_, _)
RStripChars(s, chars) ==
    IF s # <<>> /\ s[Len(s)] \in chars THEN RStripChars(SubSeq(s, 1, Len(s) - 1), chars) ELSE s
StripChars(s, chars) == RStripChars(LStripChars(s, chars), chars)

\* re.sub(r'_+', '_', s)
RECURSIVE CollapseUnderscores(_)
CollapseUnderscores(s) ==
    IF s = <<>> THEN <<>>
    ELSE IF Head(s) = "_" /\ Len(s) >= 2 /\ s[2] = "_" THEN CollapseUnderscores(Tail(s))
    ELSE <<Head(s)>> \o CollapseUnderscores(Tail(s))

DefaultFieldName == <<"f", "i", "e", "l", "d">>

\* A variant that leaves the underscores at both ends.
NormalizeFieldName_NoStrip(field_name) ==
    LET normalized == CollapseUnderscores(ReplaceSpecialRuns(Lower(field_name)))
    IN IF normalized = <<>> THEN DefaultFieldName ELSE normalized

NormalizeFieldName(field_name) ==
    LET normalized == CollapseUnderscores(
                         StripChars(ReplaceSpecialRuns(Lower(field_name)), {"_"}))
    IN IF normalized = <<>> THEN DefaultFieldName ELSE normalized

(* float(value), for the strings of the model: digits with at most one point, and  *)
(* the word nan in any letter case, which float() takes for the float nan.          *)
IsDigits(s) == \A i \in DOMAIN s : s[i] \in Digits
DigitVal(c) == CASE c = "1" -> 1 [] c = "2" -> 2 [] c = "4" -> 4 [] c = "5" -> 5 [] OTHER -> 0

RECURSIVE DigitsVal(_)
DigitsVal(s) == IF s = <<>> THEN 0 ELSE 10 * DigitsVal(SubSeq(s, 1, Len(s) - 1)) + DigitVal(s[Len(s)])

PointAt(s) == CHOOSE i \in DOMAIN s : s[i] = "."

IsNan(s) == Lower(s) = <<"n", "a", "n">>

LooksNumeric(s) ==
    \/ IsNan(s)
    \/ s # <<>> /\ IsDigits(s)
    \/ /\ Cardinality({i \in DOMAIN s : s[i] = "."}) = 1
       /\ Len(s) >= 2
       /\ IsDigits(SubSeq(s, 1, PointAt(s) - 1))
       /\ IsDigits(SubSeq(s, PointAt(s) + 1, Len(s)))

\* The float as whole part and fraction digits without trailing zeros; nan, for which
\* is_integer() is false, as a fraction of its own.
NaN == [whole |-> 0, frac |-> <<"n", "a", "n">>]

ToFloat(s) ==
    IF IsNan(s) THEN NaN
    ELSE IF IsDigits(s) THEN [whole |-> DigitsVal(s), frac |-> <<>>]
    ELSE [whole |-> DigitsVal(SubSeq(s, 1, PointAt(s) - 1)),
          frac |-> RStripChars(SubSeq(s, PointAt(s) + 1, Len(s)), {"0"})]

TrueWords == {<<"t", "r", "u", "e">>, <<"y", "e", "s">>, <<"y">>}
FalseWords == {<<"f", "a", "l", "s", "e">>, <<"n", "o">>, <<"n">>}

\* A variant that keeps a float without fractional part a float.
CleanString_KeepsIntegralFloat(s) ==
    LET value == StripChars(s, SpaceChars)
    IN IF value = <<>> THEN Null
       ELSE IF LooksNumeric(value)
       THEN IF IsDigits(value) THEN IntV(ToFloat(value).whole) ELSE FloatV(ToFloat(value))
       ELSE IF Lower(value) \in TrueWords THEN BoolV(TRUE)
       ELSE IF Lower(value) \in FalseWords THEN BoolV(FALSE)
       ELSE StrV(value)

\* A variant that tries the conversions on the text before it is stripped.
CleanString_ConvertBeforeStrip(s) ==
    LET value == StripChars(s, SpaceChars)
    IN IF value = <<>> THEN Null
       ELSE IF LooksNumeric(s)
       THEN IF ToFloat(s).frac = <<>> THEN IntV(ToFloat(s).whole)
            ELSE FloatV(ToFloat(s))
       ELSE IF Lower(s) \in TrueWords THEN BoolV(TRUE)
       ELSE IF Lower(s) \in FalseWords THEN BoolV(FALSE)
       ELSE StrV(value)

CleanString(s) ==
    LET value == StripChars(s, SpaceChars)
    IN IF value = <<>> THEN Null
       ELSE IF LooksNumeric(value)
       THEN IF ToFloat(value).frac = <<>> THEN IntV(ToFloat(value).whole)
            ELSE FloatV(ToFloat(value))
       ELSE IF Lower(value) \in TrueWords THEN BoolV(TRUE)
       ELSE IF Lower(value) \in FalseWords THEN BoolV(FALSE)
       ELSE StrV(value)

RECURSIVE CleanValue(_)
CleanValue(value) ==
    CASE value.kind = "null" -> Null
      [] value.kind = "str" -> CleanString(value.val)
      [] value.kind = "list" -> ListV([i \in DOMAIN value.val |-> CleanValue(value.val[i])])
      [] value.kind = "dict" ->
            DictV([i \in DOMAIN value.val |->
                      Entry(value.val[i].key, CleanValue(value.val[i].val))])
      [] OTHER -> value

\* dict[key] = val on a dict kept as its items in insertion order.
SetItem(items, key, val) ==
    IF \E i \in DOMAIN items : items[i].key = key
    THEN [i \in DOMAIN items |-> IF items[i].key = key THEN Entry(key, val) ELSE items[i]]
    ELSE Append(items, Entry(key, val))

RECURSIVE NormalizeRecord(_, _)
NormalizeRecord(record, normalized_record) ==
    IF record = <<>> THEN normalized_record
    ELSE NormalizeRecord(Tail(record),
                         SetItem(normalized_record, NormalizeFieldName(Head(record).key),
                                 CleanValue(Head(record).val)))

\* Values that are not JSON values: a container that holds itself, which json.dumps
\* refuses with ValueError, and an object such as a Decimal, which json.dumps hands to
\* `default`; val is then the characters of str(object).
Circular == [kind |-> "circular", val |-> <<>>]
ObjectV(str) == [kind |-> "other", val |-> str]

\* json.dumps raises on the value.
RECURSIVE DumpsRaises(_)
DumpsRaises(value) ==
    CASE value.kind = "circular" -> TRUE
      [] value.kind \in {"dict", "list"} ->
            \E i \in DOMAIN value.val :
                DumpsRaises(IF value.kind = "dict" THEN value.val[i].val ELSE value.val[i])
      [] OTHER -> FALSE

\* json.dumps(value, sort_keys=True, default=str): equal for two values iff these are
\* equal.  The items of a mapping are written in the order of their keys, so the text
\* is given by the set of its items; `default` writes an object as the string str(object).
RECURSIVE Dumps(_)
Dumps(value) ==
    CASE value.kind = "dict" ->
            [kind |-> "dict",
             val |-> {<<value.val[i].key, Dumps(value.val[i].val)>> : i \in DOMAIN value.val}]
      [] value.kind = "list" -> ListV([i \in DOMAIN value.val |-> Dumps(value.val[i])])
      [] value.kind = "other" -> StrV(value.val)
      [] OTHER -> value

\* Mutant: the serialization keeps the items in the order of the record.
RecordKey_Unsorted(record) == DictV(record)

\* record_key
RecordKey(record) == Dumps(DictV(record))

RECURSIVE DeduplicateInto(_, _, _)
DeduplicateInto(records, seen, unique_records) ==
    IF records = <<>> THEN unique_records
    ELSE IF DumpsRaises(DictV(Head(records)))
         THEN DeduplicateInto(Tail(records), seen, Append(unique_records, Head(records)))
         ELSE IF RecordKey(Head(records)) \in seen
              THEN DeduplicateInto(Tail(records), seen, unique_records)
              ELSE DeduplicateInto(Tail(records), seen \cup {RecordKey(Head(records))},
                                   Append(unique_records, Head(records)))

DeduplicateRecords(records) == DeduplicateInto(records, {}, <<>>)

CleanRecords(records) ==
    IF records = <<>> THEN <<>>
    ELSE DeduplicateRecords([i \in DOMAIN records |-> NormalizeRecord(records[i], <<>>)])

(* The inputs of the cleaner. *)
NameChars == {"A", "a", "4", "_", "-", " "}
NameSamples == UNION {[1..n -> NameChars] : n \in 0..MaxNameLen}

StringSamples ==
    {<<>>, <<" ">>, <<" ", "4">>, <<"4", ".", "0">>, <<"4", ".", "5", " ">>, <<".", "5">>,
     <<"4", ".">>, <<"0", "4">>, <<"Y", "e", "s">>, <<" ", "n", "o">>, <<"a", " ", "b">>,
     <<" ", "a">>, <<"4", " ", "5">>, <<"4", ".", "5", ".">>, <<"N", "a", "n">>,
     <<"T", "r", "u", "e">>, <<"n">>, <<"n", "o", "n">>}

ScalarSamples == {Null, IntV(4), BoolV(TRUE)} \cup {StrV(s) : s \in StringSamples}

KeySamples == {<<"a">>, <<"A">>, <<"a", " ", "b">>, <<"_", "a", "_", "_", "b">>, <<"-">>}

RecordSamples ==
    {<<Entry(<<"a">>, v)>> : v \in ScalarSamples}
    \cup {<<Entry(k, StrV(<<" ", "4">>))>> : k \in KeySamples}
    \cup {<<Entry(<<"A">>, IntV(4)), Entry(<<"b">>, StrV(<<"4", ".", "0">>)),
             Entry(<<"a">>, StrV(<<" ", "n", "o">>))>>,
           <<Entry(<<"b">>, IntV(4)), Entry(<<"a">>, BoolV(FALSE))>>,
           <<Entry(<<"a">>, ListV(<<StrV(<<" ", "4">>), StrV(<<" ">>)>>))>>,
           <<Entry(<<"a">>, ListV(<<IntV(4), Null>>))>>,
           <<Entry(<<"a">>, DictV(<<Entry(<<"A", " ">>, StrV(<<"4", ".", "0">>))>>))>>,
           <<Entry(<<"a">>, DictV(<<Entry(<<"A", " ">>, IntV(4))>>))>>,
           <<>>}

RecordLists == UNION {[1..n -> RecordSamples] : n \in 0..MaxRecords}

\* _normalize_field_name(field_name)
Normalize ==
    /\ cleanOp = "idle"
    /\ \E field_name \in NameSamples :
          /\ cleanIn' = field_name
          /\ cleanOut' = <<NormalizeFieldName(field_name)>>
    /\ cleanOp' = "normalize"

\* _normalize_field_name on the name it returned.
NormalizeAgain ==
    /\ cleanOp = "normalize"
    /\ Len(cleanOut) = 1
    /\ cleanOut' = Append(cleanOut, NormalizeFieldName(cleanOut[1]))
    /\ UNCHANGED <<cleanOp, cleanIn>>

\* clean_records(records)
Clean ==
    /\ cleanOp = "idle"
    /\ \E records \in RecordLists :
          /\ cleanIn' = records
          /\ cleanOut' = <<CleanRecords(records)>>
    /\ cleanOp' = "clean"

\* clean_records on the records it returned.
CleanAgain ==
    /\ cleanOp = "clean"
    /\ Len(cleanOut) = 1
    /\ cleanOut' = Append(cleanOut, CleanRecords(cleanOut[1]))
    /\ UNCHANGED <<cleanOp, cleanIn>>

\* The inputs of _deduplicate_records: records that differ in key order only, in a
\* nested mapping too, records whose values differ in kind only, a record json.dumps
\* cannot write, and a record whose object is written like another record's string.
DedupSamples ==
    {<<Entry(<<"a">>, IntV(1)), Entry(<<"b">>, IntV(2))>>,
     <<Entry(<<"b">>, IntV(2)), Entry(<<"a">>, IntV(1))>>,
     <<Entry(<<"a">>, IntV(1))>>,
     <<Entry(<<"a">>, BoolV(TRUE))>>,
     <<Entry(<<"a">>, DictV(<<Entry(<<"x">>, Null), Entry(<<"y">>, IntV(1))>>))>>,
     <<Entry(<<"a">>, DictV(<<Entry(<<"y">>, IntV(1)), Entry(<<"x">>, Null)>>))>>,
     <<Entry(<<"a">>, ListV(<<Circular>>))>>,
     <<Entry(<<"a">>, ObjectV(<<"4">>))>>,
     <<Entry(<<"a">>, StrV(<<"4">>))>>}

DedupLists == UNION {[1..n -> DedupSamples] : n \in 0..MaxRecords}

\* _deduplicate_records(records)
Deduplicate ==
    /\ cleanOp = "idle"
    /\ \E records \in DedupLists :
          /\ cleanIn' = records
          /\ cleanOut' = <<DeduplicateRecords(records)>>
    /\ cleanOp' = "dedup"

\* The values of the records above, a float, and containers nested in containers.
ValueSamples ==
    UNION {{r[i].val : i \in DOMAIN r} : r \in RecordSamples} \cup
    {FloatV([whole |-> 4, frac |-> <<"5">>]),
     ListV(<<DictV(<<Entry(<<"A", " ">>, StrV(<<" ", "n", "o">>))>>),
             ListV(<<StrV(<<"4", ".", "0">>)>>)>>),
     DictV(<<Entry(<<"b">>, ListV(<<StrV(<<" ">>), BoolV(FALSE)>>)),
             Entry(<<"a">>, StrV(<<"4", ".", "5", " ">>))>>)}

\* _clean_value(value)
CleanOne ==
    /\ cleanOp = "idle"
    /\ \E value \in ValueSamples :
          /\ cleanIn' = value
          /\ cleanOut' = <<CleanValue(value)>>
    /\ cleanOp' = "value"

CleanIdle == cleanOp = "idle" /\ cleanIn = <<>> /\ cleanOut = <<>>

-----------------------------------------------------------------------------
(* The pipeline (backend/modules/etl_pipeline.py).  process_file joins the *)
(* extractor, the cleaner and the schema manager, so the values cross the  *)
(* three representations above: the extractor's strings are TLA+ strings   *)
(* and its dicts functions, the cleaner's strings are character sequences  *)
(* and its dicts item sequences, the schema manager's records are Rec(..). *)

MaxCalls == 2       \* process_file calls per behaviour

\* The characters of a string of the documents below: "1.5", or one character.
CharsOf(s) == IF s = "1.5" THEN <<"1", ".", "5">> ELSE <<s>>

\* The keys of a dict in some order; the cleaner's result does not depend on it
\* while the normalized keys stay distinct.
RECURSIVE KeySeq(_)
KeySeq(keys) ==
    IF keys = {} THEN <<>>
    ELSE LET k == CHOOSE k \in keys : TRUE IN <<k>> \o KeySeq(keys \ {k})

\* A parsed value as the cleaner receives it.
RECURSIVE ToCleaner(_)
ToCleaner(value) ==
    CASE value.kind = "str" -> StrV(CharsOf(value.val))
      [] value.kind = "list" -> ListV([i \in DOMAIN value.val |-> ToCleaner(value.val[i])])
      [] value.kind = "dict" ->
            LET keys == KeySeq(DOMAIN value.val)
            IN DictV([i \in DOMAIN keys |-> Entry(CharsOf(keys[i]), ToCleaner(value.val[keys[i]]))])
      [] OTHER -> value

\* A cleaned value as the schema manager and the store receive it.
RECURSIVE FromCleaner(_)
FromCleaner(value) ==
    CASE value.kind = "str" -> StrV(Concat(value.val))
      [] value.kind = "list" -> ListV([i \in DOMAIN value.val |-> FromCleaner(value.val[i])])
      [] value.kind = "dict" ->
            DictV([key \in {Concat(value.val[i].key) : i \in DOMAIN value.val} |->
                     FromCleaner(value.val[CHOOSE i \in DOMAIN value.val :
                                              Concat(value.val[i].key) = key].val)])
      [] OTHER -> value

\* An element of parsed_data as a record of the schema manager.
RecordOf(value) == IF value.kind = "dict" THEN Rec(value.val) ELSE NonDict

\* process_file, lines 58-64: the records of a fragment, or none (`continue`).
FragmentRecords(parsed_data) ==
    CASE parsed_data.kind = "list" -> parsed_data.val
      [] parsed_data.kind = "dict" -> <<parsed_data>>
      [] OTHER -> <<>>

ParsedDataOf(parsed_data) ==
    [kind |-> IF parsed_data.kind \in {"list", "dict"} THEN parsed_data.kind ELSE "other",
     items |-> [i \in DOMAIN FragmentRecords(parsed_data) |->
                   RecordOf(FragmentRecords(parsed_data)[i])]]

\* records and isinstance(records[0], dict)
IsCleanable(records) == records # <<>> /\ records[1].kind = "dict"

\* clean_records iterates record.items() of every element.
CleaningRaises(records) == IsCleanable(records) /\ \E i \in DOMAIN records : records[i].kind # "dict"

CleanedRecordsOf(records) ==
    LET cleaned == CleanRecords([i \in DOMAIN records |-> ToCleaner(records[i]).val])
    IN [i \in DOMAIN cleaned |-> RecordOf(FromCleaner(DictV(cleaned[i])))]

\* process_file, lines 56-70: the fragment with its cleaned_records attached.
CleanFragment(fragment) ==
    LET records == FragmentRecords(fragment.parsed_data)
    IN [type |-> fragment.type, start_line |-> fragment.start_line,
        end_line |-> fragment.end_line,
        cleaned_records |-> IF IsCleanable(records) THEN CleanedRecordsOf(records) ELSE <<>>,
        parsed_data |-> ParsedDataOf(fragment.parsed_data)]

RECURSIVE AllRecords(_)
AllRecords(fragments) ==
    IF fragments = <<>> THEN <<>>
    ELSE Head(fragments).cleaned_records \o AllRecords(Tail(fragments))

\* parse_file: .txt and .md are read as text, any other suffix but .pdf is refused.
ParseFile(file) ==
    IF file.ext \in {"txt", "md"} THEN [raised |-> FALSE, content |-> file.text]
    ELSE [raised |-> TRUE, content |-> <<>>]

PipelineError(error_type) == [status |-> "error", error_type |-> error_type]

\* The one element of a singleton set.
Only(S) == CHOOSE x \in S : TRUE

\* process_file, lines 41-45: parse_file, then extract_all_fragments on its text.
ParseAndExtract(file, slm) ==
    IF ParseFile(file).raised THEN [raised |-> TRUE, fragments |-> <<>>]
    ELSE ExtractAllFragments(ParseFile(file).content, slm)

\* A variant without the check for an empty fragment list.
NoData_Never(fragments) == FALSE

\* if not fragments
NoData(fragments) == fragments = <<>>

\* process_file, lines 48-72, on what the extraction gave.
CleanStage(extracted) ==
    IF extracted.raised
    THEN [outcome |-> "raised", steps |-> <<>>, result |-> PipelineError("ValueError"),
          fragments |-> <<>>]
    ELSE IF NoData(extracted.fragments)
    THEN [outcome |-> "nodata", steps |-> <<"extract">>,
          result |-> PipelineError("NoDataFound"), fragments |-> <<>>]
    ELSE IF \E i \in DOMAIN extracted.fragments :
               CleaningRaises(FragmentRecords(extracted.fragments[i].parsed_data))
    THEN [outcome |-> "raised", steps |-> <<"extract">>,
          result |-> PipelineError("AttributeError"), fragments |-> <<>>]
    ELSE [outcome |-> "ok", steps |-> <<"extract", "clean">>, result |-> None,
          fragments |-> [i \in DOMAIN extracted.fragments |->
                            CleanFragment(extracted.fragments[i])]]

\* process_file up to its first await: parse, extract, clean.
ExtractAndClean(file, slm) ==
    Only({CleanStage(extracted) : extracted \in {ParseAndExtract(file, slm)}})

(* The files the model uploads. *)
TextFile(lines) == [ext |-> "txt", text |-> JoinLines(lines)]
DocX1 == TextFile(<<<<"{", "x", ":", " ", "1", "}">>>>)
DocX15 == TextFile(<<<<"{", "x", ":", " ", "1.5", "}">>>>)
DocMixedList == TextFile(<<<<"[", "{", "x", ":", "1", "}", ",", "2", "]">>>>)
DocScalarList == TextFile(<<<<"[", "1", ",", "2", "]">>>>)
DocCsv == TextFile(<<<<"x", ",", "y">>, <<"1", ",", "a">>, <<"2", ",", "b">>>>)
DocHtml == TextFile(<<<<"<p>", "hi", "</p>">>>>)
DocProse == TextFile(<<ProseLine, BlankLine>>)
DocOverlong == TextFile(<<JsonLineOverlong>>)
DocUnsupported == [ext |-> "csv", text |-> JoinLines(<<<<"x", ",", "y">>, <<"1", ",", "a">>>>)]

Files == {DocX1, DocX15, DocMixedList, DocScalarList, DocCsv, DocHtml, DocProse, DocOverlong, DocUnsupported}

\* Every file for source s1, one file for source s2.
Uploads == {[source_id |-> "s1", file |-> f] : f \in Files}
           \cup {[source_id |-> "s2", file |-> DocX1]}

DataCollections == {CollectionName(t) : t \in {"json", "csv", "html", "xml"}}

NoPipeFrame ==
    [source_id |-> "", file |-> None, fragments |-> <<>>, existing_schema |-> None,
     schema |-> None, index |-> 0, steps |-> <<>>, call |-> 0]

\* _load_data: the next fragment at or after `from` that has cleaned records, or 0.
NextLoad(fragments, from) ==
    IF \E i \in from..Len(fragments) : fragments[i].cleaned_records # <<>>
    THEN CHOOSE i \in from..Len(fragments) :
            /\ fragments[i].cleaned_records # <<>>
            /\ \A j \in from..(i - 1) : fragments[j].cleaned_records = <<>>
    ELSE 0

\* records_to_insert of one fragment; `call` tells which process_file call inserted them.
RecordsToInsert(fragment, source_id, call) ==
    [i \in DOMAIN fragment.cleaned_records |->
        [record |-> fragment.cleaned_records[i], source_id |-> source_id, call |-> call]]

UploadLogEntry(f) ==
    [source_id |-> f.source_id, file_type |-> f.file.ext,
     fragments_count |-> Len(f.fragments), record_count |-> Len(AllRecords(f.fragments)),
     data_types |-> DataTypes(f.fragments), call |-> f.call]

Success(f) ==
    [status |-> "success", source_id |-> f.source_id, schema |-> f.schema,
     total_fragments |-> Len(f.fragments), total_records |-> Len(AllRecords(f.fragments))]

\* The call returns `result`.
Returns(f, result) ==
    /\ ppc' = "idle"
    /\ pframe' = NoPipeFrame
    /\ pret' = result
    /\ pcalls' = Append(pcalls, [source_id |-> f.source_id, file |-> f.file,
                                 steps |-> f.steps, result |-> result])

\* _load_data from fragment `from` on, up to the next await: of insert_many, or
\* of the insert_one of _log_upload when no fragment with records is left.
LoadFrom(f, from) ==
    IF NextLoad(f.fragments, from) # 0
    THEN [pc |-> "load", frame |-> [f EXCEPT !.index = NextLoad(f.fragments, from)]]
    ELSE [pc |-> "log", frame |-> [f EXCEPT !.index = 0, !.steps = Append(@, "load")]]

\* The call starts and runs up to the await of find_one, or returns before it.
PStart ==
    /\ ppc = "idle"
    /\ Len(pcalls) < MaxCalls
    /\ \E upload \in Uploads, slm \in SlmOutcomes :
       \E staged \in {ExtractAndClean(upload.file, slm)} :
          LET f == [NoPipeFrame EXCEPT !.source_id = upload.source_id, !.file = upload.file,
                                       !.fragments = staged.fragments, !.steps = staged.steps,
                                       !.call = Len(pcalls) + 1]
          IN IF staged.outcome = "ok"
             THEN /\ ppc' = "find"
                  /\ pframe' = f
                  /\ UNCHANGED <<pret, pcalls>>
             ELSE Returns(f, staged.result)
    /\ UNCHANGED <<storeVars, dataColls, uploads>>

\* generate_schema: find_one returns, and the code runs up to the await of insert_one.
PFind ==
    /\ ppc = "find"
    /\ LET existing_schema == FindOne(schemas, pframe.source_id)
       IN pframe' = [pframe EXCEPT !.existing_schema = existing_schema,
                                   !.schema = BuildSchema(pframe.source_id, existing_schema,
                                                          pframe.fragments)]
    /\ ppc' = "insert"
    /\ UNCHANGED <<storeVars, dataColls, uploads, pret, pcalls>>

\* generate_schema: insert_one into the history returns.
PInsertHistory ==
    /\ ppc = "insert"
    /\ history' = InsertOne(history, SchemaCopy(pframe.schema))
    /\ ppc' = "update"
    /\ UNCHANGED <<schemas, pframe, dataColls, uploads, pret, pcalls>>

\* generate_schema: update_one returns, generate_schema returns the schema, and
\* _load_data runs up to its first await.
PUpdate ==
    /\ ppc = "update"
    /\ schemas' = UpdateOneUpsert(schemas, pframe.source_id, pframe.schema)
    /\ LET next == LoadFrom([pframe EXCEPT !.steps = Append(@, "schema")], 1)
       IN ppc' = next.pc /\ pframe' = next.frame
    /\ UNCHANGED <<history, dataColls, uploads, pret, pcalls>>

\* A variant that swallows the failure of generate_schema and goes on to _load_data.
PSchemaFail_LoadsAnyway ==
    /\ ppc \in {"find", "insert", "update"}
    /\ LET next == LoadFrom(pframe, 1)
       IN ppc' = next.pc /\ pframe' = next.frame
    /\ UNCHANGED <<storeVars, dataColls, uploads, pret, pcalls>>

\* A store call of generate_schema raises: the exception leaves generate_schema and
\* process_file returns it as an error result.
PSchemaFail ==
    /\ ppc \in {"find", "insert", "update"}
    /\ Returns(pframe, PipelineError("StoreError"))
    /\ UNCHANGED <<storeVars, dataColls, uploads>>

\* _load_data: insert_many of one fragment's records returns.
PLoad ==
    /\ ppc = "load"
    /\ LET fragment == pframe.fragments[pframe.index]
           name == CollectionName(fragment.type)
       IN dataColls' = [dataColls EXCEPT ![name] =
                           @ \o RecordsToInsert(fragment, pframe.source_id, pframe.call)]
    /\ LET next == LoadFrom(pframe, pframe.index + 1)
       IN ppc' = next.pc /\ pframe' = next.frame
    /\ UNCHANGED <<storeVars, uploads, pret, pcalls>>

\* insert_many raises.
PLoadFail ==
    /\ ppc = "load"
    /\ Returns(pframe, PipelineError("StoreError"))
    /\ UNCHANGED <<storeVars, dataColls, uploads>>

\* _log_upload: insert_one returns, and process_file returns its summary.
PLog ==
    /\ ppc = "log"
    /\ uploads' = Append(uploads, UploadLogEntry(pframe))
    /\ LET f == [pframe EXCEPT !.steps = Append(@, "log")]
       IN Returns(f, Success(f))
    /\ UNCHANGED <<storeVars, dataColls>>

\* The insert_one of _log_upload raises.
PLogFail ==
    /\ ppc = "log"
    /\ Returns(pframe, PipelineError("StoreError"))
    /\ UNCHANGED <<storeVars, dataColls, uploads>>

PipeIdle ==
    /\ ppc = "idle"
    /\ pframe = NoPipeFrame
    /\ dataColls = [c \in DataCollections |-> <<>>]
    /\ uploads = <<>>
    /\ pret = None
    /\ pcalls = <<>>

-----------------------------------------------------------------------------
(* The pure helpers applied to arguments of their own: _get_fields_from_query *)
(* of the query executor, _infer_fields_schema and _merge_field_schemas of    *)
(* the schema manager.                                                        *)

MaxDepth == 2       \* nesting depth of the combinators in a filter or projection
MaxBatch == 2       \* records of a batch given to _infer_fields_schema

\* Mappings without combinators: up to two entries with distinct keys.
FlatEntries == {Entry(k, v) : k \in {"price", "_id"}, v \in {Scalar, OpMap}}
FlatParts ==
    {<<>>} \cup {<<e>> : e \in FlatEntries}
           \cup {<<pair[1], pair[2]>> :
                    pair \in {p \in FlatEntries \X FlatEntries : p[1].key # p[2].key}}

\* Mappings with combinators nested up to depth d.
RECURSIVE QueryParts(_)
QueryParts(d) ==
    IF d = 0 THEN FlatParts
    ELSE LET inner == QueryParts(d - 1)
         IN inner
            \cup {<<Entry(c, ListOf(<<DictItem(q), OtherItem>>))>> : c \in {"$or", "$and"}, q \in inner}
            \cup {<<Entry("name", Scalar), Entry("$or", ListOf(<<DictItem(q)>>))>> : q \in inner}
            \cup {<<Entry("$not", OpMap)>>, <<Entry("$exists", Scalar)>>}

\* _get_fields_from_query(filter), _get_fields_from_query(projection)
GetFields ==
    /\ helperOp = "idle"
    /\ \E query_part \in QueryParts(MaxDepth), role \in {"filter", "projection"} :
          /\ helperIn' = [role |-> role, query_part |-> query_part]
          /\ helperOut' = GetFieldsFromQuery(query_part)
    /\ helperOp' = "fields"

\* The records of the batches: x non-null, x null, x absent, and an element that is no mapping.
BatchElements ==
    {Rec([x |-> IntV(1)]), Rec([x |-> IntV(2)]), Rec([x |-> Null]), Rec([y |-> IntV(1)]), NonDict}
RecordBatches == UNION {[1..n -> BatchElements] : n \in 1..MaxBatch}

\* Batches of one field whose values are of every kind a cleaned record can hold.
KindValues ==
    {Null, BoolV(TRUE), IntV(1), FloatV(<<1, 5>>), StrV("a"), ListV(<<>>), DictV(<<>>)}
KindBatches == UNION {[1..n -> {Rec([x |-> v]) : v \in KindValues}] : n \in 1..MaxBatch}

\* _infer_fields_schema(records)
InferFields ==
    /\ helperOp = "idle"
    /\ \E records \in RecordBatches \cup KindBatches :
          /\ helperIn' = [records |-> records]
          /\ helperOut' = InferFieldsSchema(records)
    /\ helperOp' = "infer"

\* _merge_field_schemas(existing, new), on the schemas inferred from two batches.
MergeFields ==
    /\ helperOp = "idle"
    /\ \E existing \in RecordBatches, new \in RecordBatches :
          /\ helperIn' = [existing |-> existing, new |-> new]
          /\ helperOut' = MergeFieldSchemas(InferFieldsSchema(existing), InferFieldsSchema(new))
    /\ helperOp' = "merge"

\* The type names of a field schema, and the schema of one field x of a type.
FieldTypes == {"boolean", "integer", "float", "string", "array", "object", "null", "mixed"}
FieldOfType(type) == [x |-> [type |-> type, required |-> TRUE, sample |-> Null]]

\* _merge_field_schemas over three schemas of one field, in both groupings, and over
\* the first two in both orders.
MergeTypes ==
    /\ helperOp = "idle"
    /\ \E a \in FieldTypes, b \in FieldTypes, c \in FieldTypes :
          /\ helperIn' = [a |-> a, b |-> b, c |-> c]
          /\ helperOut' =
                [ab |-> MergeFieldSchemas(FieldOfType(a), FieldOfType(b)),
                 ba |-> MergeFieldSchemas(FieldOfType(b), FieldOfType(a)),
                 left |-> MergeFieldSchemas(
                              MergeFieldSchemas(FieldOfType(a), FieldOfType(b)), FieldOfType(c)),
                 right |-> MergeFieldSchemas(
                              FieldOfType(a), MergeFieldSchemas(FieldOfType(b), FieldOfType(c)))]
    /\ helperOp' = "widen"

-----------------------------------------------------------------------------
SchemaInit ==
    /\ schemas = <<>>
    /\ history = <<>>
    /\ pc = [p \in Procs |-> "idle"]
    /\ frame = [p \in Procs |-> NoFrame]
    /\ okCount = [s \in Sources |-> 0]
    /\ lateFail = [s \in Sources |-> 0]
    /\ overlapped = FALSE
    /\ contributed = [s \in Sources |-> [c \in AllCollections |-> {}]]

QueryIdle ==
    /\ qpc = "idle"
    /\ qin = None
    /\ qidx = 0
    /\ allResults = <<>>
    /\ storeOps = <<>>
    /\ queryLog = <<>>
    /\ qret = None
    /\ qnl = None
    /\ translateCalls = 0

HelperIdle == helperOp = "idle" /\ helperIn = <<>> /\ helperOut = <<>>

Init == SchemaInit /\ QueryIdle /\ ExtractIdle /\ CleanIdle /\ PipeIdle /\ HelperIdle

Next ==
    \/ \E p \in Procs : GenFind(p) /\ UNCHANGED <<queryVars, extractVars, cleanVars, pipeVars, helperVars>>
    \/ \E p \in Procs : GenFindFail(p) /\ UNCHANGED <<queryVars, extractVars, cleanVars, pipeVars, helperVars>>
    \/ \E p \in Procs : GenInsertHistory(p) /\ UNCHANGED <<queryVars, extractVars, cleanVars, pipeVars, helperVars>>
    \/ \E p \in Procs : GenInsertFail(p) /\ UNCHANGED <<queryVars, extractVars, cleanVars, pipeVars, helperVars>>
    \/ \E p \in Procs : GenUpdate(p) /\ UNCHANGED <<queryVars, extractVars, cleanVars, pipeVars, helperVars>>
    \/ \E p \in Procs : GenUpdateFail(p) /\ UNCHANGED <<queryVars, extractVars, cleanVars, pipeVars, helperVars>>

Spec == Init /\ [][Next]_vars

QueryNext ==
    \/ QCall /\ UNCHANGED <<schemaVars, extractVars, cleanVars, pipeVars, helperVars>>
    \/ QFindStep /\ UNCHANGED <<schemaVars, extractVars, cleanVars, pipeVars, helperVars>>
    \/ QAggregateStep /\ UNCHANGED <<schemaVars, extractVars, cleanVars, pipeVars, helperVars>>
    \/ QReturnResults /\ UNCHANGED <<schemaVars, extractVars, cleanVars, pipeVars, helperVars>>
    \/ QLogAndReturn /\ UNCHANGED <<schemaVars, extractVars, cleanVars, pipeVars, helperVars>>
    \/ QLogErrorAndReturn /\ UNCHANGED <<schemaVars, extractVars, cleanVars, pipeVars, helperVars>>
    \/ NLCall /\ UNCHANGED <<schemaVars, extractVars, cleanVars, pipeVars, helperVars>>
    \/ NLLogAndReturn /\ UNCHANGED <<schemaVars, extractVars, cleanVars, pipeVars, helperVars>>
    \/ NLLogErrorAndReturn /\ UNCHANGED <<schemaVars, extractVars, cleanVars, pipeVars, helperVars>>

SpecQuery == Init /\ [][QueryNext]_vars

ExtractNext ==
    \/ Extract /\ UNCHANGED <<schemaVars, queryVars, cleanVars, pipeVars, helperVars>>
    \/ ExtractAgain /\ UNCHANGED <<schemaVars, queryVars, cleanVars, pipeVars, helperVars>>

SpecExtract == Init /\ [][ExtractNext]_vars

CleanNext ==
    \/ Normalize /\ UNCHANGED <<schemaVars, queryVars, extractVars, pipeVars, helperVars>>
    \/ NormalizeAgain /\ UNCHANGED <<schemaVars, queryVars, extractVars, pipeVars, helperVars>>
    \/ Clean /\ UNCHANGED <<schemaVars, queryVars, extractVars, pipeVars, helperVars>>
    \/ CleanAgain /\ UNCHANGED <<schemaVars, queryVars, extractVars, pipeVars, helperVars>>
    \/ Deduplicate /\ UNCHANGED <<schemaVars, queryVars, extractVars, pipeVars, helperVars>>
    \/ CleanOne /\ UNCHANGED <<schemaVars, queryVars, extractVars, pipeVars, helperVars>>

SpecClean == Init /\ [][CleanNext]_vars

PipeNext ==
    \/ PStart /\ UNCHANGED <<callerVars, queryVars, extractVars, cleanVars, helperVars>>
    \/ PFind /\ UNCHANGED <<callerVars, queryVars, extractVars, cleanVars, helperVars>>
    \/ PInsertHistory /\ UNCHANGED <<callerVars, queryVars, extractVars, cleanVars, helperVars>>
    \/ PUpdate /\ UNCHANGED <<callerVars, queryVars, extractVars, cleanVars, helperVars>>
    \/ PSchemaFail /\ UNCHANGED <<callerVars, queryVars, extractVars, cleanVars, helperVars>>
    \/ PLoad /\ UNCHANGED <<callerVars, queryVars, extractVars, cleanVars, helperVars>>
    \/ PLoadFail /\ UNCHANGED <<callerVars, queryVars, extractVars, cleanVars, helperVars>>
    \/ PLog /\ UNCHANGED <<callerVars, queryVars, extractVars, cleanVars, helperVars>>
    \/ PLogFail /\ UNCHANGED <<callerVars, queryVars, extractVars, cleanVars, helperVars>>

SpecPipeline == Init /\ [][PipeNext]_vars

HelperNext ==
    \/ GetFields /\ UNCHANGED <<schemaVars, queryVars, extractVars, cleanVars, pipeVars>>
    \/ InferFields /\ UNCHANGED <<schemaVars, queryVars, extractVars, cleanVars, pipeVars>>
    \/ MergeFields /\ UNCHANGED <<schemaVars, queryVars, extractVars, cleanVars, pipeVars>>
    \/ MergeTypes /\ UNCHANGED <<schemaVars, queryVars, extractVars, cleanVars, pipeVars>>

SpecHelpers == Init /\ [][HelperNext]_vars

-----------------------------------------------------------------------------
(* Properties of generate_schema (specification Spec).                     *)

Quiescent == \A p \in Procs : pc[p] = "idle"

HistoryIdx(s) == {i \in DOMAIN history : history[i].source_id = s}

CollectionsOf(doc) == IF doc = None THEN <<>> ELSE doc.collections

CountIn(collections, name) ==
    IF name \in Names(collections) THEN Get(collections, name).record_count ELSE 0

FieldsIn(collections, name) ==
    IF name \in Names(collections) THEN Get(collections, name).fields ELSE <<>>

FieldNames == {"x", "y"}

\* Field f of collection c has required = b in the current schema of source s.
RequiredIs(s, c, f, b) ==
    /\ f \in DOMAIN FieldsIn(CollectionsOf(Current(s)), c)
    /\ FieldsIn(CollectionsOf(Current(s)), c)[f].required = b

\* C1: when the calls run one at a time, a call that succeeds stores version 1 if the
\* source had no current schema, and the current version plus 1 otherwise, whether
\* or not its batch changes a collection.
C1_VersionPlusOne ==
    [][\A p \in Procs : \A s \in Sources :
          (GenUpdate(p) /\ ~overlapped /\ s = frame[p].source_id) =>
             /\ FindOne(schemas', s) # None
             /\ FindOne(schemas', s).version =
                   IF Current(s) = None THEN 1 ELSE Current(s).version + 1]_vars

\* Two successive serial versions of s1 with the same collections.
C1_Witness ==
    /\ ~overlapped /\ Quiescent
    /\ okCount["s1"] = 2 /\ lateFail["s1"] = 0
    /\ HistoryIdx("s1") = {1, 2}
    /\ history[1].version = 1 /\ history[2].version = 2
    /\ history[1].collections = history[2].collections
    /\ Current("s1") = history[2]

\* C2: when the calls run one at a time, after a call that succeeds every collection's
\* record_count is the stored record_count (0 for a collection not stored yet) plus
\* the number of records of the call's fragments of that type; no collection is
\* dropped, so no count decreases or is reset.
C2_RecordCountAccumulates ==
    [][\A p \in Procs : \A s \in Sources :
          (GenUpdate(p) /\ ~overlapped /\ s = frame[p].source_id) =>
             \A c \in AllCollections :
                /\ CountIn(CollectionsOf(FindOne(schemas', s)), c) =
                      CountIn(CollectionsOf(Current(s)), c)
                      + Len(BatchRecords(frame[p].fragments, c))
                /\ c \in Names(CollectionsOf(Current(s)))
                      => c \in Names(CollectionsOf(FindOne(schemas', s)))]_vars

\* Three serial versions of s1, json_data having grown by a batch with two fragments.
C2_Witness ==
    /\ ~overlapped /\ Quiescent
    /\ Current("s1") # None
    /\ Current("s1").version = 3
    /\ CountIn(Current("s1").collections, "json_data") = 5
    /\ CountIn(Current("s1").collections, "csv_data") = 2

C4_EntriesEqualSuccesses ==
    Quiescent => \A s \in Sources : Cardinality(HistoryIdx(s)) = okCount[s]

\* C4 amended: no step modifies or removes a history entry, a step appends at most
\* one, a call that succeeds has appended its schema (source_id, version,
\* collections), and the history holds for a source one entry per call that
\* succeeded, per call that failed after its history insert and per call that is
\* between its two writes.
C4_AppendOnlyHistory ==
    /\ [][/\ Len(history') \in {Len(history), Len(history) + 1}
          /\ SubSeq(history', 1, Len(history)) = history
          /\ \A p \in Procs : GenUpdate(p) =>
                \E i \in DOMAIN history :
                   /\ history[i].source_id = frame[p].source_id
                   /\ history[i].version = frame[p].schema.version
                   /\ history[i].collections = frame[p].schema.collections
                   /\ history[i] = FindOne(schemas', frame[p].source_id)]_vars
    /\ [](\A s \in Sources :
             Cardinality(HistoryIdx(s)) =
                okCount[s] + lateFail[s]
                + Cardinality({p \in Procs : pc[p] = "update" /\ frame[p].source_id = s}))

\* Two successes and one failure after the history insert for s1: three entries.
C4_Witness ==
    /\ Quiescent
    /\ okCount["s1"] = 2 /\ lateFail["s1"] = 1
    /\ Cardinality(HistoryIdx("s1")) = 3

\* C5: in every state the current schema document of a source, if there is one, has
\* the version and the collections of a history entry of that source.
C5_CurrentIsInHistory ==
    \A s \in Sources :
       Current(s) # None =>
          \E i \in HistoryIdx(s) :
             /\ history[i].version = Current(s).version
             /\ history[i].collections = Current(s).collections

\* Interleaved one of them failed at its second write, another between its
\* two writes, and a current schema stored.
C5_Witness ==
    /\ overlapped
    /\ lateFail["s1"] = 1
    /\ Current("s1") # None
    /\ \E p \in Procs : pc[p] = "update" /\ frame[p].source_id = "s1"

\* C6: the document a call writes is built from the schema that call read and from
\* its own batch alone, whatever the current schema is when it writes.
C6_WriteIgnoresInterveningWrites ==
    [][\A p \in Procs : \A s \in Sources :
          (GenUpdate(p) /\ s = frame[p].source_id) =>
             /\ FindOne(schemas', s) =
                   BuildSchema(s, frame[p].existing_schema, frame[p].fragments)
             /\ \A c \in AllCollections :
                   CountIn(CollectionsOf(FindOne(schemas', s)), c) =
                      CountIn(CollectionsOf(frame[p].existing_schema), c)
                      + Len(BatchRecords(frame[p].fragments, c))]_vars

\* Two calls for s1 read "no schema", both succeeded; the current schema is the
\* second one's and json_data, which the first one stored, is missing from it.
C6_Witness ==
    /\ overlapped /\ Quiescent
    /\ okCount["s1"] = 2 /\ lateFail["s1"] = 0
    /\ HistoryIdx("s1") = {1, 2}
    /\ history[1].version = 1 /\ history[2].version = 1
    /\ Current("s1") = history[2]
    /\ CountIn(history[1].collections, "json_data") > 0
    /\ "x" \in DOMAIN FieldsIn(history[1].collections, "json_data")
    /\ "json_data" \notin Names(Current("s1").collections)
    /\ contributed["s1"]["json_data"] # {}

\* C7 as stated (for calls run one at a time): a field that is required in the
\* current schema was carried, non-null, by every record that contributed to the
\* collection.
C7_RequiredMeansCarriedByAll ==
    ~overlapped =>
       \A s \in Sources : \A c \in AllCollections : \A f \in FieldNames :
          RequiredIs(s, c, f, TRUE) =>
             \A r \in contributed[s][c] :
                r.isdict /\ f \in DOMAIN r.items /\ r.items[f].kind # "null"

-----------------------------------------------------------------------------
(* Properties of execute_db_query (specification SpecQuery).               *)

QRunning == qpc # "idle" /\ qin.query # Malformed

\* The collections on which a find or an aggregate was issued, in order.
IssuedOn == [i \in DOMAIN storeOps |-> storeOps[i].collection]

\* The collections the loop has gone through.
Reached == SubSeq(QCollections, 1, qidx - 1)

NamesOf(collections) == [i \in DOMAIN collections |-> collections[i].name]

\* (a) and (b) of the routing rule.
Eligible(coll_data) ==
    /\ FieldsInFilter = {} \/ FieldsInFilter \subseteq DOMAIN coll_data.fields
    /\ FieldsInProjection = {} \/ FieldsInProjection \cap DOMAIN coll_data.fields # {}

NotFailing(coll_data) == coll_data.name \notin qin.failing

RECURSIVE AggregateAnswers(_)
AggregateAnswers(collections) ==
    IF collections = <<>> THEN <<>>
    ELSE StoreAggregate(Head(collections).name, qin.query.pipeline)
         \o AggregateAnswers(Tail(collections))

\* C8: for a find query, the finds issued are exactly the finds on the collections,
\* among those the loop has gone through, for which (a) the filter fields are empty
\* or all known to the collection and (b) the projection fields are empty or share a
\* name with them; a call that returns results has gone through every collection;
\* and with json_data{price}, csv_data{name} and filter {price: {$gt: 100}} the one
\* find issued is on json_data.
C8_FindQueriesEligibleCollections ==
    (QRunning /\ QOperation = "find") =>
       /\ IssuedOn = NamesOf(SelectSeq(Reached, Eligible))
       /\ \A i \in DOMAIN storeOps : storeOps[i].op = "find"
       /\ (qpc = "done" /\ "execution_result" \in DOMAIN qret)
             => Reached = QCollections
       /\ (qpc = "done" /\ qin.schema = PriceNameSchema /\ qin.query = PriceGt100Query)
             => IssuedOn = <<"json_data">>

\* The scenario of the claim, finished with the records of json_data.
C8_Witness ==
    /\ qpc = "done"
    /\ qin.schema = PriceNameSchema /\ qin.query = PriceGt100Query
    /\ qin.failing = {}
    /\ IssuedOn = <<"json_data">>
    /\ "execution_result" \in DOMAIN qret
    /\ Len(qret.execution_result) = Len(StoredDocs("json_data"))

\* C9: for an aggregate query the pipeline is issued on every collection of the
\* schema, in schema order, whatever its fields; the call never takes the error
\* path, and it returns, with no error, the answers of the collections on which
\* the store did not fail, concatenated in schema order.
C9_AggregateSkipsFailures ==
    (QRunning /\ QOperation = "aggregate") =>
       /\ storeOps = [i \in DOMAIN Reached |->
                         [op |-> "aggregate", collection |-> Reached[i].name]]
       /\ qpc # "log_error"
       /\ qpc = "done" =>
             /\ Reached = QCollections
             /\ qret.error = None
             /\ qret.execution_result =
                   SerializeMongoResults(AggregateAnswers(SelectSeq(QCollections, NotFailing)))

\* An aggregate over three collections, the store failing on the second only.
C9_Witness ==
    /\ qpc = "done" /\ QOperation = "aggregate"
    /\ Len(QCollections) = 3
    /\ qin.failing = {QCollections[2].name}
    /\ IssuedOn = NamesOf(QCollections)
    /\ qret.error = None
    /\ Len(qret.execution_result) = 4

RequestedOperation ==
    IF "operation" \in qin.query.keys THEN qin.query.operation ELSE "find"

\* C11: a query whose operation is neither find nor aggregate, and any query on a
\* schema without collections, issues no find and no aggregate, never takes the
\* error path, and returns an empty execution_result with error None; its log entry
\* has result_count 0 and no error.
C11_UnknownOperationOrNoCollections ==
    (QRunning /\ (RequestedOperation \notin {"find", "aggregate"} \/ QCollections = <<>>)) =>
       /\ storeOps = <<>>
       /\ qpc # "log_error"
       /\ qpc = "done" =>
             /\ qret.error = None
             /\ qret.execution_result = <<>>
             /\ Len(queryLog) = 1
             /\ queryLog[1].result_count = 0
             /\ queryLog[1].error = None

\* A "count" query on a schema with three collections, the store failing on all of them.
C11_Witness ==
    /\ qpc = "done" /\ QRunning
    /\ RequestedOperation = "count"
    /\ Len(QCollections) = 3
    /\ qin.failing = AllCollections
    /\ storeOps = <<>>
    /\ qret.execution_result = <<>>
    /\ qret.error = None

\* A value holds a store-generated identifier, at any depth.
RECURSIVE HasOid(_)
HasOid(value) ==
    CASE value.kind = "oid" -> TRUE
      [] value.kind = "dict" -> \E k \in DOMAIN value.val : HasOid(value.val[k])
      [] value.kind = "list" -> \E j \in DOMAIN value.val : HasOid(value.val[j])
      [] OTHER -> FALSE

\* C12 as stated: no record of a returned execution_result holds an identifier, at
\* any depth of nested mappings and lists.
C12_NoIdentifierRemains ==
    (qpc = "done" /\ "execution_result" \in DOMAIN qret) =>
       \A i \in DOMAIN qret.execution_result :
          \A k \in DOMAIN qret.execution_result[i] :
             ~HasOid(qret.execution_result[i][k])

\* The call is an execute_nl_query call whose translator answered a text json.loads rejects.
NLBadJson == qnl # None /\ qnl.query_json # None /\ Loads(qnl.query_json) = Malformed

-----------------------------------------------------------------------------
(* The extractor: C14 .. C18.                                              *)

\* What the scanners find in the text of the calls, in the order the call collects it.
XJson == ExtractJsonFragments(xtext)
XHtml == ExtractHtmlFragments(xtext).fragments
XCsv == ExtractCsvFragments(xtext).fragments
XXml == ExtractXmlFragments(xtext)
ScannerOutput == XJson.fragments \o XHtml \o XCsv \o XXml

Returned(r) == xruns[r].result.fragments
HasKey(fragments, frag) ==
    \E i \in DOMAIN fragments : FragmentKey(fragments[i]) = FragmentKey(frag)

\* C14 as stated: no call raises, whatever the text, and what the HTML, CSV and XML
\* scanners found is among the returned fragments whatever became of the spans that
\* failed to parse.
C14_NeverRaises ==
    \A r \in DOMAIN xruns :
       /\ ~xruns[r].result.raised
       /\ \A i \in DOMAIN XHtml : HasKey(Returned(r), XHtml[i])
       /\ \A i \in DOMAIN XCsv : HasKey(Returned(r), XCsv[i])
       /\ \A i \in DOMAIN XXml : HasKey(Returned(r), XXml[i])

C16_SortedWithoutDuplicates ==
    LET scanned == ScannerOutput
        keys == [n \in DOMAIN scanned |-> FragmentKey(scanned[n])]
    IN \A r \in DOMAIN xruns :
          ~xruns[r].result.raised =>
             LET fs == Returned(r)
             IN /\ \A i, j \in DOMAIN fs :
                      i < j => /\ fs[i].start_line <= fs[j].start_line
                               /\ FragmentKey(fs[i]) # FragmentKey(fs[j])
                /\ \A n \in DOMAIN scanned : HasKey(fs, scanned[n])
                /\ \A i \in DOMAIN fs :
                      \E n \in DOMAIN scanned :
                         /\ scanned[n] = fs[i]
                         /\ \A k \in 1..(n - 1) : keys[k] # keys[n]

\* A call whose scanners gave their fragments out of order and two with the same key.
C16_Witness ==
    LET scanned == ScannerOutput
    IN \E r \in DOMAIN xruns :
          /\ ~xruns[r].result.raised
          /\ Len(Returned(r)) >= 2
          /\ Len(scanned) > Len(Returned(r))
          /\ \E i, j \in DOMAIN scanned :
                i < j /\ scanned[i].start_line > scanned[j].start_line

\* The JSON scanner after the first k lines of the text of the calls.
JsonAfter(k) == JsonScan(JsonIdle, SubSeq(SplitLines(xtext), 1, k), 0)

\* Line k closes a JSON span: the scanner is inside one and the counts return to zero.
JsonCloses(k) ==
    LET line == SplitLines(xtext)[k]
        counted == JsonChars(JsonAfter(k - 1), Strip(line), k - 1, Strip(line))
    IN /\ ~JsonAfter(k - 1).raised
       /\ counted.in_json
       /\ counted.brace_count = 0
       /\ counted.bracket_count = 0

JsonSpan(k) ==
    LET line == SplitLines(xtext)[k]
        counted == JsonChars(JsonAfter(k - 1), Strip(line), k - 1, Strip(line))
    IN [start_line |-> counted.json_start + 1,
        text |-> JoinLines(Append(counted.current_json, line))]

\* C17 as stated: a closing span gives a fragment with the strictly parsed data if the
\* strict parse succeeds, else a fragment with the repaired data if the text parses
\* once the commas before a closing brace or bracket are removed, else no fragment; in
\* every case no error results and the scanner is idle again.  The line
\* {"a": 1, "b": 2,} between two prose lines gives one JSON fragment with {a: 1, b: 2}.
C17_SpanParsedRepairedOrDropped ==
    /\ \A r \in DOMAIN xruns : \A k \in 1..Len(SplitLines(xtext)) :
          JsonCloses(k) =>
             LET span == JsonSpan(k)
                 strict == JsonLoads(span.text)
                 fixed == JsonLoads(RemoveTrailingCommas(span.text))
                 before == JsonAfter(k - 1).fragments
                 after == JsonAfter(k)
                 data == IF strict.status = "ok" THEN strict.val ELSE fixed.val
             IN /\ ~after.raised
                /\ ~after.in_json
                /\ ~xruns[r].result.raised
                /\ IF strict.status = "ok" \/ fixed.status = "ok"
                   THEN /\ Len(after.fragments) = Len(before) + 1
                        /\ after.fragments[Len(after.fragments)].type = "json"
                        /\ after.fragments[Len(after.fragments)].start_line = span.start_line
                        /\ after.fragments[Len(after.fragments)].end_line = k
                        /\ after.fragments[Len(after.fragments)].parsed_data = data
                   ELSE after.fragments = before
    /\ \A r \in DOMAIN xruns :
          xtext = JoinLines(ScenarioRepair) =>
             /\ Len(Returned(r)) = 1
             /\ Returned(r)[1].type = "json"
             /\ Returned(r)[1].parsed_data = DictV([a |-> IntV(1), b |-> IntV(2)])

\* The CSV scanner after the first k lines of the text of the calls.
RECURSIVE CsvAfter(_)
CsvAfter(k) ==
    IF k = 0 THEN CsvIdle ELSE CsvLine(CsvAfter(k - 1), SplitLines(xtext)[k], k - 1)

\* The buffered block has this fragment among the returned ones.
CsvKept(r, block, end_line) ==
    \E i \in DOMAIN Returned(r) :
       /\ Returned(r)[i].type = "csv"
       /\ Returned(r)[i].start_line = block.csv_start + 1
       /\ Returned(r)[i].end_line = end_line
       /\ Returned(r)[i].parsed_data
             = ListV(ParseCsv(JoinLines(block.current_csv), block.delimiter))

CsvRowCount(block) == Len(ParseCsv(JoinLines(block.current_csv), block.delimiter))

\* The buffered blocks of the text of the calls with the end_line the code gives
\* each: a block ends on a line that leaves the scanner outside a block, or at the
\* end of the input.
CsvBlocks ==
    LET n == Len(SplitLines(xtext))
        after == [k \in 0..n |-> CsvAfter(k)]
    IN {[block |-> after[k - 1], end_line |-> k - 1, ended_by |-> SplitLines(xtext)[k]] :
           k \in {j \in 1..n : after[j - 1].in_csv /\ ~after[j].in_csv}}
       \cup (IF after[n].in_csv
             THEN {[block |-> after[n], end_line |-> n, ended_by |-> <<"EOF">>]}
             ELSE {})

\* C18: a buffered block is among the returned fragments exactly when it parses to at
\* least 2 rows, wherever it ends (a JSON/XML-looking line, a line that does not
\* continue the pattern, the end of the input), and no other CSV fragment is
\* returned; the text "name,age\nAlice,30\nBob,25\n" gives one CSV fragment with the
\* records {name: Alice, age: "30"} and {name: Bob, age: "25"}.
C18_CsvKeptIffTwoRows ==
    LET blocks == CsvBlocks
    IN \A r \in DOMAIN xruns :
          ~xruns[r].result.raised =>
             /\ \A b \in blocks :
                   CsvKept(r, b.block, b.end_line) <=> CsvRowCount(b.block) >= 2
             /\ Cardinality({i \in DOMAIN Returned(r) : Returned(r)[i].type = "csv"})
                   = Cardinality({b \in blocks : CsvRowCount(b.block) >= 2})
             /\ xtext = JoinLines(ScenarioCsv) =>
                   /\ Len(Returned(r)) = 1
                   /\ Returned(r)[1].type = "csv"
                   /\ Returned(r)[1].parsed_data
                         = ListV(<<DictV([name |-> StrV("Alice"), age |-> StrV("30")]),
                                   DictV([name |-> StrV("Bob"), age |-> StrV("25")])>>)

\* A call on a text with a block of two rows ended by a JSON line and kept, and a
\* later block of one row ended by the end of the input and discarded.
C18_Witness ==
    LET blocks == CsvBlocks
    IN \E r \in DOMAIN xruns :
          /\ ~xruns[r].result.raised
          /\ \E b \in blocks :
                /\ LooksLikeJsonOrXml(Strip(b.ended_by))
                /\ CsvRowCount(b.block) >= 2
                /\ CsvKept(r, b.block, b.end_line)
          /\ \E b \in blocks :
                /\ b.ended_by = <<"EOF">>
                /\ CsvRowCount(b.block) < 2
                /\ ~CsvKept(r, b.block, b.end_line)

-----------------------------------------------------------------------------
(* The cleaner: C19, C20.                                                  *)

\* Lowercase letters, digits and single underscores, none at either end, not empty.
WellFormedName(name) ==
    /\ name # <<>>
    /\ \A i \in DOMAIN name : name[i] \in LowerCase \cup Digits \cup {"_"}
    /\ name[1] # "_"
    /\ name[Len(name)] # "_"
    /\ \A i \in 1..(Len(name) - 1) : ~(name[i] = "_" /\ name[i + 1] = "_")

HasAlphanumeric(name) ==
    \E i \in DOMAIN name : name[i] \in UpperCase \cup LowerCase \cup Digits

\* C19: the name _normalize_field_name returns is well formed, is 'field' when the
\* input has no alphanumeric character, and is returned unchanged when normalised
\* again; every top-level key of every record clean_records returns is well formed.
C19_NormalizedNames ==
    /\ cleanOp = "normalize" =>
          /\ WellFormedName(cleanOut[1])
          /\ ~HasAlphanumeric(cleanIn) => cleanOut[1] = DefaultFieldName
          /\ Len(cleanOut) = 2 => cleanOut[2] = cleanOut[1]
    /\ cleanOp = "clean" =>
          \A n \in DOMAIN cleanOut : \A i \in DOMAIN cleanOut[n] :
             \A e \in DOMAIN cleanOut[n][i] : WellFormedName(cleanOut[n][i][e].key)

\* The name "_A 4" has been normalised to a_4, and that name normalised again.
C19_Witness ==
    /\ cleanOp = "normalize"
    /\ cleanIn = <<"_", "A", " ", "4">>
    /\ cleanOut = <<<<"a", "_", "4">>, <<"a", "_", "4">>>>

\* C20: clean_records applied to what clean_records returned returns the same records
\* in the same order.
C20_CleanIdempotent ==
    (cleanOp = "clean" /\ Len(cleanOut) = 2) => cleanOut[2] = cleanOut[1]

\* Two different records that the first pass cleaned into one, cleaned again.
C20_Witness ==
    /\ cleanOp = "clean"
    /\ Len(cleanOut) = 2
    /\ Len(cleanIn) = 2
    /\ cleanIn[1] # cleanIn[2]
    /\ cleanOut[1] = <<<<Entry(<<"a">>, IntV(4))>>>>

-----------------------------------------------------------------------------
(* The pipeline: C21 .. C23 (specification SpecPipeline).                  *)

Succeeded(n, source_id, file) ==
    /\ pcalls[n].source_id = source_id
    /\ pcalls[n].file = file
    /\ pcalls[n].result.status = "success"

\* The call that returned last ingested `second`, and an earlier one ingested `first`.
IngestedThenLater(source_id, first, second) ==
    /\ ppc = "idle"
    /\ pcalls # <<>>
    /\ Succeeded(Len(pcalls), source_id, second)
    /\ \E n \in 1..(Len(pcalls) - 1) : Succeeded(n, source_id, first)

CurrentField(source_id, collection, field) ==
    Get(Current(source_id).collections, collection).fields[field]

\* C21 as stated: after {"x": 1} and later {"x": "1.5"} were ingested for one source,
\* field x of json_data has type string in the current schema.
C21_StringWinsThroughPipeline ==
    \A s \in Sources :
        IngestedThenLater(s, DocX1, DocX15)
            => CurrentField(s, "json_data", "x").type = "string"

\* What the code gives: the cleaner made 1.5 of "1.5", and integer with float is mixed.
C21_MixedThroughPipeline ==
    \A s \in Sources :
        IngestedThenLater(s, DocX1, DocX15)
            => /\ CurrentField(s, "json_data", "x").type = "mixed"
               /\ CurrentField(s, "json_data", "x").sample = FloatV([whole |-> 1, frac |-> <<"5">>])

C21_Reached == IngestedThenLater("s1", DocX1, DocX15)

PipelineOrder == <<"extract", "clean", "schema", "load", "log">>

IsPrefix(s, t) == Len(s) <= Len(t) /\ s = SubSeq(t, 1, Len(s))

\* The steps the call numbered `call` has completed, in flight or returned.
StepsOf(call) == IF call <= Len(pcalls) THEN pcalls[call].steps ELSE pframe.steps

HasInserted(call) ==
    \E c \in DataCollections : \E i \in DOMAIN dataColls[c] : dataColls[c][i].call = call

HasLogged(call) == \E i \in DOMAIN uploads : uploads[i].call = call

\* The call returned after cleaning and before generate_schema returned its schema.
SchemaGenerationFailed(call) ==
    /\ call \in DOMAIN pcalls
    /\ pcalls[call].steps = <<"extract", "clean">>

\* C22: the steps of a call are completed in the order extract, clean, schema, load
\* (then the upload log); no record is in a data collection before the call's schema
\* is stored; and a call whose schema generation failed has inserted no record and no
\* upload-log entry and returned an error result naming the failure.
C22_OrderedAndSchemaFailureFatal ==
    /\ \A call \in 1..(Len(pcalls) + 1) : IsPrefix(StepsOf(call), PipelineOrder)
    /\ \A call \in 1..(Len(pcalls) + 1) :
          /\ HasInserted(call) => \E k \in DOMAIN StepsOf(call) : StepsOf(call)[k] = "schema"
          /\ HasLogged(call) => \E k \in DOMAIN StepsOf(call) : StepsOf(call)[k] = "load"
    /\ \A call \in DOMAIN pcalls :
          SchemaGenerationFailed(call)
              => /\ ~HasInserted(call)
                 /\ ~HasLogged(call)
                 /\ pcalls[call].result = PipelineError("StoreError")

\* A call succeeded, and the next call's generate_schema failed after its history insert.
C22_Witness ==
    /\ Len(pcalls) >= 2
    /\ pcalls[1].result.status = "success"
    /\ HasInserted(1)
    /\ SchemaGenerationFailed(2)
    /\ Len(history) = 2
    /\ pret = PipelineError("StoreError")

\* Extraction ran on the file and gave no fragment.
YieldsNoFragment(file) ==
    LET extracted == ParseAndExtract(file, SlmDisabled)
    IN ~extracted.raised /\ extracted.fragments = <<>>

\* C23: a call on a document without fragments returns an error result in the step
\* that started it, so nothing of it runs again, and that step leaves the current
\* schemas, the schema history, the data collections and the upload log as they were.
C23_NoFragmentNoEffect ==
    [][(/\ Len(pcalls') = Len(pcalls) + 1
        /\ YieldsNoFragment(pcalls'[Len(pcalls')].file))
          => /\ ppc = "idle" /\ ppc' = "idle"
             /\ pret' = PipelineError("NoDataFound")
             /\ pcalls'[Len(pcalls')].result = pret'
             /\ UNCHANGED <<schemas, history, dataColls, uploads>>]_vars

\* A call on the prose document returned while the stores held an earlier ingest.
C23_Witness ==
    /\ Len(pcalls) = 2
    /\ pcalls[1].result.status = "success"
    /\ pcalls[2].file = DocProse
    /\ YieldsNoFragment(DocProse)
    /\ pret = PipelineError("NoDataFound")
    /\ schemas # <<>> /\ history # <<>> /\ uploads # <<>>
    /\ dataColls["json_data"] # <<>>

-----------------------------------------------------------------------------
(* The scanners once more: C24 .. C27 (specification SpecExtract).         *)

\* Occurrences of `open` minus occurrences of `close` in the first k lines.
RECURSIVE Balance(_, _, _, _)
Balance(lines, k, open, close) ==
    IF k = 0 THEN 0
    ELSE Balance(lines, k - 1, open, close)
         + Cardinality({n \in DOMAIN lines[k] : lines[k][n] = open})
         - Cardinality({n \in DOMAIN lines[k] : lines[k][n] = close})

\* Line k can begin a fragment: it holds a '{', or a '[' -- anywhere in the line, or at
\* the start of the stripped line only.
Opens(lines, k, anywhere) ==
    \/ Contains(lines[k], "{")
    \/ IF anywhere THEN Contains(lines[k], "[")
       ELSE Strip(lines[k]) # <<>> /\ Head(Strip(lines[k])) = "["

\* The 1-based line on which the fragment active at the end of line k began, 0 if none:
\* a fragment begins on a line that opens one while none is active, and ends on the
\* first line at whose end both counters are zero.
RECURSIVE ActiveSince(_, _, _)
ActiveSince(lines, k, anywhere) ==
    IF k = 0 THEN 0
    ELSE LET before == ActiveSince(lines, k - 1, anywhere)
             begun == IF before # 0 THEN before
                      ELSE IF Opens(lines, k, anywhere) THEN k ELSE 0
         IN IF begun # 0 /\ Balance(lines, k, "{", "}") = 0 /\ Balance(lines, k, "[", "]") = 0
            THEN 0 ELSE begun

\* The fragment that ends on line k began on this line (0: no fragment ends there).
EndsSince(lines, k, anywhere) ==
    LET before == ActiveSince(lines, k - 1, anywhere)
        begun == IF before # 0 THEN before ELSE IF Opens(lines, k, anywhere) THEN k ELSE 0
    IN IF ActiveSince(lines, k, anywhere) = 0 THEN begun ELSE 0

\* The scanner follows the rule: after every line its counters are the balances, it is
\* inside a fragment exactly when the rule says so, with the same start line, and the
\* fragments it has emitted run from the begin line to the end line of the rule.
ScannerFollows(anywhere) ==
    LET lines == SplitLines(xtext)
    IN \A k \in 1..Len(lines) :
          LET st == JsonAfter(k)
          IN ~st.raised =>
                /\ st.brace_count = Balance(lines, k, "{", "}")
                /\ st.bracket_count = Balance(lines, k, "[", "]")
                /\ st.in_json = (ActiveSince(lines, k, anywhere) # 0)
                /\ st.in_json => st.json_start + 1 = ActiveSince(lines, k, anywhere)
                /\ \A n \in DOMAIN st.fragments :
                      /\ st.fragments[n].start_line
                            = EndsSince(lines, st.fragments[n].end_line, anywhere)
                      /\ st.fragments[n].end_line <= k
                /\ Len(st.fragments) > Len(JsonAfter(k - 1).fragments)
                      => st.fragments[Len(st.fragments)].end_line = k

\* C24 as stated: a '{' or a '[' met while no fragment is active begins one.
C24_BeginsAtEitherBracket == xruns # <<>> => ScannerFollows(TRUE)

\* C24 amended: a '[' begins a fragment only at the start of the stripped line, while
\* the bracket counter counts every '[' and ']' of every line.
C24_BeginsAtBraceOrLeadingBracket == xruns # <<>> => ScannerFollows(FALSE)

\* A '[' inside a prose line left the scanner idle with its bracket count at one, and
\* the object on the last line was found.
C24_Witness ==
    /\ xruns # <<>>
    /\ xtext = JoinLines(<<ProseOpenBracket, JsonLineOk, <<"]">>, JsonLineOk>>)
    /\ ~JsonAfter(1).in_json /\ JsonAfter(1).bracket_count = 1
    /\ JsonAfter(2).in_json /\ JsonAfter(2).json_start = 1
    /\ Len(XJson.fragments) = 1
    /\ XJson.fragments[1].start_line = 4 /\ XJson.fragments[1].end_line = 4

HtmlHasContent(frag) == frag.parsed_data.val # <<>> \/ SoupText(frag.content) # ""

\* C25 as stated: every fragment of the HTML scanner has table data or text, whether
\* its run of tag lines is ended by a non-tag line or by the end of the input.
C25_HtmlFragmentsHaveContent ==
    xruns # <<>> => LET html == XHtml IN \A n \in DOMAIN html : HtmlHasContent(html[n])

\* What holds: the fragments of runs ended by a non-tag line have table data or text.
C25_EndedRunsHaveContent ==
    xruns # <<>> =>
        LET html == XHtml
            lines == SplitLines(xtext)
        IN \A n \in DOMAIN html :
              html[n].end_line < Len(lines) => HtmlHasContent(html[n])

\* The run <p></p> is dropped before a prose line and emitted at the end of the input.
C25_Reached ==
    /\ xruns # <<>>
    /\ \/ /\ xtext = JoinLines(<<EmptyParagraph, ProseLine, JsonLineOk>>)
          /\ XHtml = <<>>
       \/ /\ xtext = JoinLines(<<JsonLineOk, ProseLine, EmptyParagraph>>)
          /\ Len(XHtml) = 1 /\ ~HtmlHasContent(XHtml[1])

\* The matched XML spans of the text whose root element has a child element.
SpansWithChildren ==
    LET matches == XmlMatches(xtext, 1)
    IN {n \in DOMAIN matches :
           Len(XmlElements(Strip(SubSeq(xtext, matches[n].start, matches[n].end)))) >= 2}

SpanText(n) ==
    LET m == XmlMatches(xtext, 1)[n] IN Strip(SubSeq(xtext, m.start, m.end))

SpanStartLine(n) == Newlines(SubSeq(xtext, 1, XmlMatches(xtext, 1)[n].start - 1)) + 1

\* The span's fragment is there, with one mapping record for the root's child (a span
\* of the pattern holds one closing tag, so its root has one direct child), and the
\* record carries the root's attributes.
SpanGivesRecords(n, xml) ==
    LET root == XmlElements(SpanText(n))[1]
    IN \E f \in DOMAIN xml :
          /\ xml[f].start_line = SpanStartLine(n)
          /\ xml[f].content = SpanText(n)
          /\ Len(xml[f].parsed_data.val) = 1
          /\ xml[f].parsed_data.val[1].kind = "dict"
          /\ \A a \in DOMAIN root.attrib :
                /\ ("root_attr_" \o a) \in DOMAIN xml[f].parsed_data.val[1].val
                /\ xml[f].parsed_data.val[1].val["root_attr_" \o a] = root.attrib[a]

\* C26 as stated: every matched span whose root has child elements gives a fragment
\* with one mapping record per child, each with the root's attributes, for leaf
\* children with text only as for children with attributes and no text.
C26_OneRecordPerChild ==
    xruns # <<>> => LET xml == XXml IN \A n \in SpansWithChildren : SpanGivesRecords(n, xml)

\* The child has attributes or children of its own, and text.
ChildConverts(n) ==
    LET elements == XmlElements(SpanText(n))
    IN /\ elements[2].attrib # <<>> \/ Len(elements) > 2
       /\ elements[2].text # ""

\* What holds: the spans whose child has attributes or children, and text of its own.
C26_RecordForChildWithText ==
    xruns # <<>> =>
        LET xml == XXml
        IN \A n \in SpansWithChildren :
              ChildConverts(n) /\ ~XmlToDict(XmlElements(SpanText(n)), 2).raised
                  => SpanGivesRecords(n, xml)

C26_Reached ==
    /\ xruns # <<>>
    /\ xtext = JoinLines(<<XmlLeafRecord, ProseLine, XmlRecordWithText>>)
    /\ SpansWithChildren = {1, 2}
    /\ ~SpanGivesRecords(1, XXml)
    /\ SpanGivesRecords(2, XXml)

Overlap(f, g) == f.start_line <= g.end_line /\ g.start_line <= f.end_line

-----------------------------------------------------------------------------
(* The pure helpers: C28 .. C30 (specification SpecHelpers).               *)

\* The keys without '$' at the top level of a mapping or inside a mapping element of
\* the list of a '$'-key, at any depth.
FieldKeysOf(query_part) ==
    LET RECURSIVE keys(_)
        keys(q) ==
            {q[i].key : i \in {j \in DOMAIN q : ~StartsWithDollar(q[j].key)}}
            \cup UNION {UNION {IF q[i].val.items[n].isdict THEN keys(q[i].val.items[n].d) ELSE {}
                                 : n \in DOMAIN q[i].val.items}
                          : i \in {j \in DOMAIN q : /\ StartsWithDollar(q[j].key)
                                                     /\ q[j].val.t = "list"}}
    IN keys(query_part)

\* C28 as stated: the field set of a filter holds every key without '$' of the top
\* level and of the elements of the combinators at any depth, and nothing else, so no
\* operator key; the field set of a projection never holds _id.
C28_FieldSetOfFilterAndProjection ==
    helperOp = "fields" =>
        /\ helperIn.role = "filter" => helperOut = FieldKeysOf(helperIn.query_part)
        /\ \A key \in helperOut : ~StartsWithDollar(key)
        /\ helperIn.role = "projection" => "_id" \notin helperOut

\* What holds, for a filter as for a projection: the field set holds those keys except
\* an _id whose value is no mapping, and no operator key.
C28_FieldSetButScalarId ==
    helperOp = "fields" =>
        LET scalar_id(q) == \E i \in DOMAIN q : q[i].key = "_id" /\ q[i].val.t # "dict"
            dict_id(q) == \E i \in DOMAIN q : q[i].key = "_id" /\ q[i].val.t = "dict"
        IN /\ FieldKeysOf(helperIn.query_part) \ {"_id"} \subseteq helperOut
           /\ helperOut \subseteq FieldKeysOf(helperIn.query_part)
           /\ \A key \in helperOut : ~StartsWithDollar(key)
           /\ dict_id(helperIn.query_part) => "_id" \in helperOut
           /\ (scalar_id(helperIn.query_part) /\ FieldKeysOf(helperIn.query_part) = {"_id"})
                 => helperOut = {}

C28_Reached ==
    /\ helperOp = "fields"
    /\ \/ helperIn = [role |-> "filter", query_part |-> <<Entry("_id", Scalar)>>] /\ helperOut = {}
       \/ /\ helperIn = [role |-> "projection", query_part |-> <<Entry("_id", OpMap)>>]
          /\ helperOut = {"_id"}

\* The record carries `key` with a value that is not null.
CarriesNonNull(record, key) ==
    record.isdict /\ key \in DOMAIN record.items /\ record.items[key].kind # "null"

\* C29 as stated: a field is required iff every record of the batch carries it with a
\* non-null value; a record without the key or with an explicit null makes it false.
C29_RequiredIffAllNonNull ==
    helperOp = "infer" =>
        \A key \in DOMAIN helperOut :
            helperOut[key].required
                <=> \A n \in DOMAIN helperIn.records : CarriesNonNull(helperIn.records[n], key)

\* What the code gives: required iff some value is non-null and every element of the
\* batch is a mapping that has the key, with a null or not.
C29_RequiredIffKeyEverywhere ==
    helperOp = "infer" =>
        \A key \in DOMAIN helperOut :
            helperOut[key].required
                <=> /\ \E n \in DOMAIN helperIn.records : CarriesNonNull(helperIn.records[n], key)
                    /\ \A n \in DOMAIN helperIn.records :
                          /\ helperIn.records[n].isdict
                          /\ key \in DOMAIN helperIn.records[n].items

C29_Reached ==
    /\ helperOp = "infer"
    /\ helperIn.records = <<Rec([x |-> IntV(1)]), Rec([x |-> Null])>>
    /\ helperOut["x"].required

\* The non-null values of `key` in the batch, in record order.
NonNullValues(records, key) == SelectSeq(FieldValues(records, key), IsNonNull)

\* C30 as stated: within a batch the sample of a field is its last non-null value, and
\* after a merge the sample is not null when a contributing record held a non-null value.
C30_SampleIsLatestNonNull ==
    /\ helperOp = "infer" =>
          \A key \in DOMAIN helperOut :
              LET values == NonNullValues(helperIn.records, key)
              IN values # <<>> => helperOut[key].sample = values[Len(values)]
    /\ helperOp = "merge" =>
          \A key \in DOMAIN helperOut :
              NonNullValues(helperIn.existing \o helperIn.new, key) # <<>>
                  => helperOut[key].sample # Null

\* What the code gives: the first non-null value of the batch, and after a merge the
\* sample of the new batch when it has the field at all, null included.
C30_SampleIsFirstOfNewBatch ==
    /\ helperOp = "infer" =>
          \A key \in DOMAIN helperOut :
              LET values == NonNullValues(helperIn.records, key)
              IN helperOut[key].sample = IF values # <<>> THEN values[1] ELSE Null
    /\ helperOp = "merge" =>
          \A key \in DOMAIN helperOut :
              LET new == NonNullValues(helperIn.new, key)
                  existing == NonNullValues(helperIn.existing, key)
              IN helperOut[key].sample =
                    IF FieldValues(helperIn.new, key) # <<>>
                    THEN (IF new # <<>> THEN new[1] ELSE Null)
                    ELSE (IF existing # <<>> THEN existing[1] ELSE Null)

C30_Reached ==
    \/ /\ helperOp = "infer"
       /\ helperIn.records = <<Rec([x |-> IntV(1)]), Rec([x |-> IntV(2)])>>
       /\ helperOut["x"].sample = IntV(1)
    \/ /\ helperOp = "merge"
       /\ helperIn = [existing |-> <<Rec([x |-> IntV(1)])>>, new |-> <<Rec([x |-> Null])>>]
       /\ helperOut["x"].sample = Null

-----------------------------------------------------------------------------
(* The type rules: C31 .. C33 (specification SpecHelpers).                   *)

\* The kinds of the non-null values that the records of the batch hold under `key`.
KindsOf(records, key) ==
    {records[n].items[key].kind : n \in {m \in DOMAIN records : CarriesNonNull(records[m], key)}}

KindName(kind) ==
    CASE kind = "bool" -> "boolean"
      [] kind = "int" -> "integer"
      [] kind = "float" -> "float"
      [] kind = "str" -> "string"
      [] kind = "list" -> "array"
      [] kind = "dict" -> "object"

\* C31: within a batch the type of a field is the name of the one kind its non-null
\* values have (a boolean is boolean, never integer); string when they have several
\* kinds and one is string, float or integer; mixed when they have several kinds and none
\* is; null, with required false, when the field has no non-null value.
C31_TypeOfKinds ==
    helperOp = "infer" =>
        \A key \in DOMAIN helperOut :
            \E kinds \in {KindsOf(helperIn.records, key)} :
                /\ Cardinality(kinds) = 1 =>
                      \A kind \in kinds : helperOut[key].type = KindName(kind)
                /\ Cardinality(kinds) > 1 /\ kinds \cap {"str", "float", "int"} # {} =>
                      helperOut[key].type = "string"
                /\ Cardinality(kinds) > 1 /\ kinds \cap {"str", "float", "int"} = {} =>
                      helperOut[key].type = "mixed"
                /\ kinds = {} => helperOut[key].type = "null" /\ ~helperOut[key].required

C31_Witness ==
    /\ helperOp = "infer"
    /\ helperIn.records = <<Rec([x |-> BoolV(TRUE)]), Rec([x |-> ListV(<<>>)])>>
    /\ helperOut["x"].type = "mixed"

\* C32: the widening of two field types by a merge is total on the type names of a
\* field schema, commutative and associative: merging three schemas of a field gives
\* the same type however the merges are grouped, and two in either order.
C32_WideningOrderFree ==
    helperOp = "widen" =>
        /\ \A side \in DOMAIN helperOut : helperOut[side]["x"].type \in FieldTypes
        /\ helperOut.ab["x"].type = helperOut.ba["x"].type
        /\ helperOut.left["x"].type = helperOut.right["x"].type

C32_Witness ==
    /\ helperOp = "widen"
    /\ helperIn = [a |-> "integer", b |-> "float", c |-> "integer"]
    /\ helperOut.ab["x"].type = "mixed"
    /\ helperOut.left["x"].type = "mixed"
    /\ helperOut.right["x"].type = "mixed"

\* The field names of a schema document, over all its collections.
StoredFieldNames(doc) == UNION {DOMAIN doc.collections[i].fields : i \in DOMAIN doc.collections}

\* C33 (specification SpecPipeline): when a call replaces the stored schema of a source,
\* every field of the new document that the stored one did not hold has required =
\* false, in a collection the stored schema had and in one it did not have.
C33_BrandNewFieldsNotRequired ==
    [][\A s \in Sources :
          \E stored \in {FindOne(schemas, s)}, written \in {FindOne(schemas', s)} :
              (stored # None /\ written # stored) =>
                  \A i \in DOMAIN written.collections :
                      \A field \in DOMAIN written.collections[i].fields \ StoredFieldNames(stored) :
                          ~written.collections[i].fields[field].required]_vars

\* What the code gives: the rule holds for the collections the stored schema had.
C33_NewFieldsOfStoredCollections ==
    [][\A s \in Sources :
          \E stored \in {FindOne(schemas, s)}, written \in {FindOne(schemas', s)} :
              (stored # None /\ written # stored) =>
                  \A i \in DOMAIN written.collections :
                      written.collections[i].name \in Names(stored.collections) =>
                          \A field \in DOMAIN written.collections[i].fields
                                          \ DOMAIN Get(stored.collections,
                                                       written.collections[i].name).fields :
                              ~written.collections[i].fields[field].required]_vars

-----------------------------------------------------------------------------
(* The cleaner once more: C34, C35 (specification SpecClean).                *)

\* A scalar as json.dumps writes it: an object is written as the string str(object).
Written(value) == IF value.kind = "other" THEN StrV(value.val) ELSE value

\* Two values have the same serialization with sorted keys: mappings with the same
\* keys and the same texts under each key, whatever the order of the items; lists
\* with the same texts at each place; scalars written alike.
RECURSIVE SameText(_, _)
SameText(u, v) ==
    IF u.kind = "dict" /\ v.kind = "dict"
    THEN /\ {u.val[i].key : i \in DOMAIN u.val} = {v.val[j].key : j \in DOMAIN v.val}
         /\ \A i \in DOMAIN u.val, j \in DOMAIN v.val :
               u.val[i].key = v.val[j].key => SameText(u.val[i].val, v.val[j].val)
    ELSE IF u.kind = "list" /\ v.kind = "list"
    THEN /\ Len(u.val) = Len(v.val)
         /\ \A i \in DOMAIN u.val : SameText(u.val[i], v.val[i])
    ELSE /\ Written(u).kind = Written(v).kind
         /\ Written(u).kind \notin {"dict", "list"}
         /\ Written(u).val = Written(v).val

\* The records to keep: those that cannot be serialized, and of the others those
\* with no earlier serializable record of the same text.
FirstOccurrences(records) ==
    {i \in DOMAIN records :
        \/ DumpsRaises(DictV(records[i]))
        \/ \A j \in 1..(i - 1) :
              DumpsRaises(DictV(records[j])) \/ ~SameText(DictV(records[j]), DictV(records[i]))}

\* The elements of `records` at the places `kept`, in their order.
KeptOf(records, kept) ==
    [n \in 1..Cardinality(kept) |->
        records[CHOOSE i \in kept : Cardinality({j \in kept : j < i}) = n - 1]]

\* C34: _deduplicate_records returns, in their order, the first record of every
\* sorted-key serialization and every record that cannot be serialized.
C34_FirstOfEachSerialization ==
    cleanOp = "dedup" =>
        \E kept \in {FirstOccurrences(cleanIn)} : cleanOut[1] = KeptOf(cleanIn, kept)

C34_Witness ==
    /\ cleanOp = "dedup"
    /\ cleanIn = <<(<<Entry(<<"a">>, IntV(1)), Entry(<<"b">>, IntV(2))>>),
                   (<<Entry(<<"b">>, IntV(2)), Entry(<<"a">>, IntV(1))>>)>>
    /\ cleanOut[1] = <<(<<Entry(<<"a">>, IntV(1)), Entry(<<"b">>, IntV(2))>>)>>

\* The string reads as a number with a fractional part that is not zero.
HasFraction(t) ==
    IsNan(t) \/ \E i \in DOMAIN t : t[i] = "." /\ \E j \in (i + 1)..Len(t) : t[j] # "0"

\* The digits of the whole part of a numeric string.
WholeDigits(t) == IF IsDigits(t) THEN t ELSE SubSeq(t, 1, PointAt(t) - 1)

\* C35's rules for a string, given trimmed: what it is mapped to.
StringRule(t, out) ==
    IF t = <<>> THEN out = Null
    ELSE IF LooksNumeric(t)
    THEN IF HasFraction(t)
         THEN out.kind = "float" /\ out.val = ToFloat(t)
         ELSE out.kind = "int" /\ out.val = DigitsVal(WholeDigits(t))
    ELSE IF Lower(t) \in {<<"t", "r", "u", "e">>, <<"y", "e", "s">>, <<"y">>} THEN out = BoolV(TRUE)
    ELSE IF Lower(t) \in {<<"f", "a", "l", "s", "e">>, <<"n", "o">>, <<"n">>} THEN out = BoolV(FALSE)
    ELSE out.kind = "str" /\ out.val = t

\* `out` is what C35's rules give for `value`.
RECURSIVE CleansTo(_, _)
CleansTo(value, out) ==
    CASE value.kind = "str" -> StringRule(StripChars(value.val, SpaceChars), out)
      [] value.kind = "list" ->
            /\ out.kind = "list"
            /\ Len(out.val) = Len(value.val)
            /\ \A i \in DOMAIN value.val : CleansTo(value.val[i], out.val[i])
      [] value.kind = "dict" ->
            /\ out.kind = "dict"
            /\ Len(out.val) = Len(value.val)
            /\ \A i \in DOMAIN value.val :
                  /\ out.val[i].key = value.val[i].key
                  /\ CleansTo(value.val[i].val, out.val[i].val)
      [] OTHER -> out = value

\* C35: _clean_value maps a trimmed string to null when empty, to a number when numeric
\* (an integer without fractional part, else a float), to a boolean when it is one of
\* the boolean words in any letter case, and to itself otherwise; lists and mappings
\* are cleaned element by element, and other scalars are returned as they are.
C35_CleanValueRules ==
    cleanOp = "value" => CleansTo(cleanIn, cleanOut[1])

C35_Witness ==
    /\ cleanOp = "value"
    /\ cleanIn = ListV(<<DictV(<<Entry(<<"A", " ">>, StrV(<<" ", "n", "o">>))>>),
                         ListV(<<StrV(<<"4", ".", "0">>)>>)>>)
    /\ cleanOut[1] = ListV(<<DictV(<<Entry(<<"A", " ">>, BoolV(FALSE))>>), ListV(<<IntV(4)>>)>>)

-----------------------------------------------------------------------------
(* The JSON scanner's counters: C36 (specification SpecExtract).             *)

\* C36: after every line at which the JSON scanner is in no fragment, its brace counter
\* and its bracket counter are zero; and a one-line JSON object met while the scanner
\* is in no fragment gives a fragment of that line.
C36_CountersZeroWhenIdle ==
    xruns # <<>> =>
        \A k \in 1..Len(SplitLines(xtext)) :
            \E before \in {JsonAfter(k - 1)}, after \in {JsonAfter(k)} :
                /\ (~after.raised /\ ~after.in_json) =>
                      after.brace_count = 0 /\ after.bracket_count = 0
                /\ (~before.raised /\ ~before.in_json /\ SplitLines(xtext)[k] = JsonLineOk) =>
                      \E n \in DOMAIN after.fragments :
                          after.fragments[n].start_line = k /\ after.fragments[n].end_line = k

-----------------------------------------------------------------------------
(* The pipeline once more: C37 (specification SpecPipeline).                 *)

\* The records of source s that the data collection `name` holds.
StoredRecords(name, s) == {n \in DOMAIN dataColls[name] : dataColls[name][n].source_id = s}

\* C37: between process_file calls, the record_count of every collection of a source's
\* current schema is the number of the source's records in that data collection.
C37_CountIsStoredRecords ==
    ppc = "idle" =>
        \A s \in Sources :
            \E current \in {FindOne(schemas, s)} :
                current # None =>
                    \A i \in DOMAIN current.collections :
                        current.collections[i].record_count
                            = Cardinality(StoredRecords(current.collections[i].name, s))

\* What the code gives: the count is never below the number of stored records.
C37_CountAtLeastStoredRecords ==
    \A s \in Sources :
        \E current \in {FindOne(schemas, s)} :
            \A name \in DataCollections :
                Cardinality(StoredRecords(name, s))
                    <= IF current # None /\ name \in Names(current.collections)
                       THEN Get(current.collections, name).record_count ELSE 0

-----------------------------------------------------------------------------
(* The query executor once more: C38 (specification SpecQuery).              *)

\* C38: the records a query for a source returns were all loaded under that source.
C38_OnlyOwnRecords ==
    (qpc = "done" /\ "execution_result" \in DOMAIN qret) =>
        \A i \in DOMAIN qret.execution_result :
            qret.execution_result[i]["_source_id"] = StrV(qret.source_id)

-----------------------------------------------------------------------------
(* generate_schema under interleaving once more: C39, C40 (specification Spec). *)

\* C39: the history entries of a source have pairwise distinct versions.
C39_DistinctHistoryVersions ==
    \A s \in Sources :
        \A i \in HistoryIdx(s), j \in HistoryIdx(s) :
            i # j => history[i].version # history[j].version

\* C40: no step lowers the version of the current schema document of a source.
C40_CurrentVersionNeverDecreases ==
    [][\A s \in Sources :
          \E before \in {FindOne(schemas, s)}, after \in {FindOne(schemas', s)} :
              before # None => after # None /\ after.version >= before.version]_vars

====
